---- MODULE Spec2Model ----
(***************************************************************************)
(* Real-time game session coordinator of the chess server.                 *)
(*                                                                         *)
(* The repository holds two socket coordinators:                           *)
(*   "single"  the single global room of socket/socketController.js        *)
(*             (handleConnection(io, socket)) wired by socketHandler.js    *)
(*             on top of the ChessGame service (service/service.js);       *)
(*   "rooms"   the multi-room class SocketController                       *)
(*             (sockets/socketController.js) guarded by the PolicyManager. *)
(* A deployment runs one of them; the variable impl records which.         *)
(* Spec is the specification of the coordinators.                          *)
(*                                                                         *)
(* Two further specifications drive the library interfaces directly:       *)
(*   PolicySpec   the PolicyManager (policies/*.js) and the permission     *)
(*                middleware, one call per behaviour, impl = "policy";     *)
(*   ServiceSpec  the exported methods of the ChessGame service and the    *)
(*                controller's validateMove, impl = "service".             *)
(* The variable pc holds the call made through these interfaces and its    *)
(* answer.                                                                 *)
(*                                                                         *)
(* The rules oracle (chess.js) is modelled on real chess positions,        *)
(* restricted to the finite alphabet of move payloads Moves.               *)
(***************************************************************************)
EXTENDS Integers, Sequences, FiniteSets, Bags, TLC

VARIABLES impl, conn, out, players, game, users, games, waitingPlayers, ioRooms, pc,
          gameDocs

vars == <<impl, conn, out, players, game, users, games, waitingPlayers, ioRooms, pc,
          gameDocs>>

(* ------------------------------ bounds --------------------------------- *)

\* number of connections (socket ids) ever opened
NumSockets == 3

\* cap on the number of moves applied to one game
MaxPlies == 9

\* number of game ids the id generator draws from
NumGameIds == 2

\* cap on the length of a room's players list
MaxPlayersLen == 3

\* events without a handler are explored in games of at most this many moves
MaxDrawPlies == 1

\* cap on the number of checks in one checkMultiple batch
MaxChecks == 2

Sockets == 1..NumSockets
NoSocket == 0
GameIds == 1..NumGameIds
UserIds == {"u1", "u2"}
Undefined == "undefined"

(* --------------------------- rules oracle ------------------------------ *)

Mv(f, t) == [from |-> f, to |-> t]

\* move payloads clients send; the last one is structurally malformed
WhiteMoves == {Mv("e2", "e4"), Mv("d1", "h5"), Mv("b1", "c3"), Mv("c3", "b1")}
BlackMoves == {Mv("f7", "f6"), Mv("g7", "g5"), Mv("g8", "f6"), Mv("f6", "g8")}
Malformed == Mv("", "e4")
Moves == WhiteMoves \cup BlackMoves \cup {Malformed}

\* new Chess(): the initial position.  A position records which of the
\* pieces the alphabet can move have left their home square, and the side
\* to move; every other piece stands on its home square.
\*   e4:  white e-pawn on e4       Qh5: white queen on h5
\*   Nc3: white queen's knight on c3
\*   f6p: black f-pawn on f6       g5:  black g-pawn on g5
\*   Nf6: black king's knight on f6
InitPos ==
  [e4 |-> FALSE, Qh5 |-> FALSE, Nc3 |-> FALSE,
   f6p |-> FALSE, g5 |-> FALSE, Nf6 |-> FALSE, turn |-> "w"]

Opp(c) == IF c = "w" THEN "b" ELSE "w"

\* chess.isCheck(): the queen on h5 attacks e8 through g6 and f7 once the
\* f-pawn has left f7; white is never attacked in these positions.
InCheck(p) == p.turn = "b" /\ p.Qh5 /\ p.f6p

\* legality of a payload in position p, by the rules of chess:
\*   d1-h5 passes e2, so the e-pawn must have moved;
\*   the f-pawn is pinned to the king once the queen stands on h5;
\*   f6 holds one piece; no move of the alphabet answers a check.
Legal(p, m) ==
  IF p.turn = "w"
    THEN CASE m = Mv("e2", "e4") -> ~p.e4
           [] m = Mv("d1", "h5") -> ~p.Qh5 /\ p.e4
           [] m = Mv("b1", "c3") -> ~p.Nc3
           [] m = Mv("c3", "b1") -> p.Nc3
           [] OTHER -> FALSE
    ELSE CASE m = Mv("f7", "f6") -> ~p.f6p /\ ~p.Nf6 /\ ~p.Qh5
           [] m = Mv("g7", "g5") -> ~p.g5 /\ ~InCheck(p)
           [] m = Mv("g8", "f6") -> ~p.Nf6 /\ ~p.f6p
           [] m = Mv("f6", "g8") -> p.Nf6
           [] OTHER -> FALSE

\* variant of ApplyPos in which a move leaves the position as it was
ApplyPosStale(p, m) == p

\* variant of ApplyPos in which the side to move stays the same
ApplyPosKeepsTurn(p, m) ==
  CASE m = Mv("e2", "e4") -> [p EXCEPT !.e4 = TRUE]
    [] m = Mv("d1", "h5") -> [p EXCEPT !.Qh5 = TRUE]
    [] m = Mv("b1", "c3") -> [p EXCEPT !.Nc3 = TRUE]
    [] m = Mv("c3", "b1") -> [p EXCEPT !.Nc3 = FALSE]
    [] m = Mv("f7", "f6") -> [p EXCEPT !.f6p = TRUE]
    [] m = Mv("g7", "g5") -> [p EXCEPT !.g5 = TRUE]
    [] m = Mv("g8", "f6") -> [p EXCEPT !.Nf6 = TRUE]
    [] m = Mv("f6", "g8") -> [p EXCEPT !.Nf6 = FALSE]
    [] OTHER -> p

\* the position after a legal move
ApplyPos(p, m) ==
  LET q == CASE m = Mv("e2", "e4") -> [p EXCEPT !.e4 = TRUE]
             [] m = Mv("d1", "h5") -> [p EXCEPT !.Qh5 = TRUE]
             [] m = Mv("b1", "c3") -> [p EXCEPT !.Nc3 = TRUE]
             [] m = Mv("c3", "b1") -> [p EXCEPT !.Nc3 = FALSE]
             [] m = Mv("f7", "f6") -> [p EXCEPT !.f6p = TRUE]
             [] m = Mv("g7", "g5") -> [p EXCEPT !.g5 = TRUE]
             [] m = Mv("g8", "f6") -> [p EXCEPT !.Nf6 = TRUE]
             [] m = Mv("f6", "g8") -> [p EXCEPT !.Nf6 = FALSE]
             [] OTHER -> p
  IN [q EXCEPT !.turn = Opp(p.turn)]

\* A Chess instance: the position and the positions seen so far (chess.js
\* counts them to detect repetition).
ChessNew == [pos |-> InitPos, seen |-> SetToBag({InitPos})]

\* new Chess(fen): the position of the FEN, with no history behind it
ChessLoad(fen) == [pos |-> fen, seen |-> SetToBag({fen})]

\* chess.fen(): the position without the repetition history
ChessFen(c) == c.pos

\* chess.move(m) accepted
ChessMoveOk(c, m) == Legal(c.pos, m)

\* chess.move(m): the instance after the move (unchanged when rejected)
ChessMove(c, m) ==
  IF Legal(c.pos, m)
    THEN LET q == ApplyPos(c.pos, m)
         IN [pos |-> q, seen |-> c.seen (+) SetToBag({q})]
    ELSE c

ChessTurn(c) == c.pos.turn

ChessIsCheck(c) == InCheck(c.pos)

\* mate: check, and g7-g6 cannot interpose because the g-pawn is on g5;
\* f7 is attacked, e7 and d8 are occupied, nothing can take on h5
ChessIsCheckmate(c) == InCheck(c.pos) /\ c.pos.g5

\* the side to move always has a legal move outside check in these positions
ChessIsStalemate(c) == FALSE

\* all sixteen pieces of each side stay on the board
ChessIsInsufficientMaterial(c) == FALSE

\* positions are compared as chess.js 1.x compares them: the en-passant
\* square of a double pawn step counts only when a capture on it exists,
\* which no position of this alphabet offers
ChessIsThreefoldRepetition(c) == CopiesIn(c.pos, c.seen) >= 3

\* the fifty-move clock cannot run out within MaxPlies moves
ChessIsDraw(c) ==
  ChessIsStalemate(c) \/ ChessIsInsufficientMaterial(c) \/ ChessIsThreefoldRepetition(c)

ChessIsGameOver(c) == ChessIsCheckmate(c) \/ ChessIsDraw(c)

(* ---------------- ChessGame service (service/service.js) --------------- *)

NoWinner == "null"

\* the game after server start: new ChessGame() followed by startNewGame()
StartNewGame ==
  [chess |-> ChessNew, gameHistory |-> <<>>, moveCount |-> 0,
   gameStatus |-> "active", winner |-> NoWinner, drawReason |-> "null"]

\* variant of updateGameStatus that names the side to move as the winner
\* of a checkmate
UpdateGameStatusWinnerToMove(g) ==
  IF ChessIsCheckmate(g.chess)
    THEN [g EXCEPT !.gameStatus = "finished",
                   !.winner = ChessTurn(g.chess),
                   !.drawReason = "null"]
  ELSE IF ChessIsStalemate(g.chess)
    THEN [g EXCEPT !.gameStatus = "finished", !.winner = NoWinner,
                   !.drawReason = "stalemate"]
  ELSE IF ChessIsThreefoldRepetition(g.chess)
    THEN [g EXCEPT !.gameStatus = "finished", !.winner = NoWinner,
                   !.drawReason = "threefold_repetition"]
  ELSE IF ChessIsInsufficientMaterial(g.chess)
    THEN [g EXCEPT !.gameStatus = "finished", !.winner = NoWinner,
                   !.drawReason = "insufficient_material"]
  ELSE IF ChessIsDraw(g.chess)
    THEN [g EXCEPT !.gameStatus = "finished", !.winner = NoWinner,
                   !.drawReason = "draw"]
  ELSE [g EXCEPT !.gameStatus = "active"]

\* ChessGame.updateGameStatus()
UpdateGameStatus(g) ==
  IF ChessIsCheckmate(g.chess)
    THEN [g EXCEPT !.gameStatus = "finished",
                   !.winner = IF ChessTurn(g.chess) = "w" THEN "b" ELSE "w",
                   !.drawReason = "null"]
  ELSE IF ChessIsStalemate(g.chess)
    THEN [g EXCEPT !.gameStatus = "finished", !.winner = NoWinner,
                   !.drawReason = "stalemate"]
  ELSE IF ChessIsThreefoldRepetition(g.chess)
    THEN [g EXCEPT !.gameStatus = "finished", !.winner = NoWinner,
                   !.drawReason = "threefold_repetition"]
  ELSE IF ChessIsInsufficientMaterial(g.chess)
    THEN [g EXCEPT !.gameStatus = "finished", !.winner = NoWinner,
                   !.drawReason = "insufficient_material"]
  ELSE IF ChessIsDraw(g.chess)
    THEN [g EXCEPT !.gameStatus = "finished", !.winner = NoWinner,
                   !.drawReason = "draw"]
  ELSE [g EXCEPT !.gameStatus = "active"]

\* variant of MakeMove that counts a rejected move
MakeMoveCountsRejected(g, m) ==
  IF ChessMoveOk(g.chess, m)
    THEN LET c == ChessMove(g.chess, m)
             n == g.moveCount + 1
         IN UpdateGameStatus(
              [g EXCEPT !.chess = c,
                        !.moveCount = n,
                        !.gameHistory = Append(g.gameHistory,
                            [move |-> m, fen |-> ChessFen(c), moveNumber |-> n])])
    ELSE [g EXCEPT !.moveCount = @ + 1]

\* variant of MakeMove that logs an accepted move only while the log is empty
MakeMoveLogsFirstOnly(g, m) ==
  IF ChessMoveOk(g.chess, m)
    THEN LET c == ChessMove(g.chess, m)
             n == g.moveCount + 1
         IN UpdateGameStatus(
              [g EXCEPT !.chess = c,
                        !.moveCount = n,
                        !.gameHistory =
                           IF g.gameHistory = <<>>
                             THEN <<[move |-> m, fen |-> ChessFen(c), moveNumber |-> n]>>
                             ELSE g.gameHistory])
    ELSE g

\* ChessGame.makeMove(move): the game after the call
MakeMove(g, m) ==
  IF ChessMoveOk(g.chess, m)
    THEN LET c == ChessMove(g.chess, m)
             n == g.moveCount + 1
         IN UpdateGameStatus(
              [g EXCEPT !.chess = c,
                        !.moveCount = n,
                        !.gameHistory = Append(g.gameHistory,
                            [move |-> m, fen |-> ChessFen(c), moveNumber |-> n])])
    ELSE g

\* ChessGame.makeMove(move) returned a move (not null)
MakeMoveResult(g, m) == ChessMoveOk(g.chess, m)

(* ------- single-room coordinator (socket/socketController.js) ---------- *)

NoMove == Mv("", "")

\* what the last handled event was and what it emitted: toSender by
\* socket.emit, toRoom by socket.to(room).emit, toAll by io.emit; legal
\* tells whether the oracle accepts the payload of a move request in the
\* position the request met, again whether the payload is the one of the
\* move applied last
OutM(ev, s, legal, again, result, toSender, toRoom, toAll) ==
  [ev |-> ev, sock |-> s, legal |-> legal, again |-> again, result |-> result,
   toSender |-> toSender, toRoom |-> toRoom, toAll |-> toAll]

Out(ev, s, result, toSender, toRoom, toAll) ==
  OutM(ev, s, FALSE, FALSE, result, toSender, toRoom, toAll)

\* socket ids are fresh names: the k-th connection opened is socket k
NextToConnect(s) == conn[s] = "new" /\ \A t \in Sockets : t < s => conn[t] # "new"

\* the seat colour the move handler derives for a socket
SeatColor(pl, s) ==
  IF s = pl.white THEN "w" ELSE IF s = pl.black THEN "b" ELSE "none"

\* variant of AssignRole that seats a newcomer on the black seat first
AssignRoleBlackFirst(pl, s) ==
  IF pl.black = NoSocket THEN [pl EXCEPT !.black = s]
  ELSE IF pl.white = NoSocket THEN [pl EXCEPT !.white = s]
  ELSE pl

\* role assignment of handleConnection(io, socket)
AssignRole(pl, s) ==
  IF pl.white = NoSocket THEN [pl EXCEPT !.white = s]
  ELSE IF pl.black = NoSocket THEN [pl EXCEPT !.black = s]
  ELSE pl

\* the payload is the one of the last applied move of the single room
SameAsLast(g, m) ==
  Len(g.gameHistory) > 0 /\ g.gameHistory[Len(g.gameHistory)].move = m

\* variant of MoveAuthorized that lets only the white seat move
MoveAuthorizedWhiteOnly(pl, g, s) ==
  SeatColor(pl, s) = "w" /\ ChessTurn(g.chess) = "w"

\* variant of MoveAuthorized that checks the seat and not the turn
MoveAuthorizedAnySeat(pl, g, s) == SeatColor(pl, s) # "none"

\* the move handler lets the request through to the service
MoveAuthorized(pl, g, s) ==
  SeatColor(pl, s) # "none" /\ SeatColor(pl, s) = ChessTurn(g.chess)

RoomsUnchanged == UNCHANGED <<users, games, waitingPlayers, ioRooms>>
SingleUnchanged == UNCHANGED <<players, game>>
ApiUnchanged == UNCHANGED pc

\* io.on('connection') -> handleConnection(io, socket)
SingleConnection(s) ==
  /\ impl = "single"
  /\ NextToConnect(s)
  /\ conn' = [conn EXCEPT ![s] = "open"]
  /\ players' = AssignRole(players, s)
  /\ out' = Out("connect", s, SeatColor(players', s),
                {IF SeatColor(players', s) = "none" THEN "spectatorRole" ELSE "playerRole",
                 "boardState"}, {}, {})
  /\ UNCHANGED <<impl, game>>
  /\ RoomsUnchanged
  /\ ApiUnchanged
  /\ UNCHANGED gameDocs

\* socket.on('move')
SingleMove(s, m) ==
  /\ impl = "single"
  /\ conn[s] = "open"
  /\ IF ~MoveAuthorized(players, game, s)
       THEN /\ out' = OutM("move", s, MakeMoveResult(game, m), SameAsLast(game, m),
                            "dropped", {}, {}, {})
            /\ UNCHANGED game
       ELSE IF MakeMoveResult(game, m)
         THEN /\ game.moveCount < MaxPlies
              /\ game' = MakeMove(game, m)
              /\ out' = OutM("move", s, TRUE, SameAsLast(game, m), "applied", {}, {},
                            {"move", "boardState"} \cup
                              (IF ChessIsGameOver(game'.chess) THEN {"gameOver"} ELSE {}))
         ELSE /\ game' = MakeMove(game, m)
              /\ out' = OutM("move", s, FALSE, SameAsLast(game, m), "invalid", {"invalid"}, {}, {})
  /\ UNCHANGED <<impl, conn, players>>
  /\ RoomsUnchanged
  /\ ApiUnchanged
  /\ UNCHANGED gameDocs

\* socket.on('disconnect')
SingleDisconnect(s) ==
  /\ impl = "single"
  /\ conn[s] = "open"
  /\ conn' = [conn EXCEPT ![s] = "gone"]
  /\ players' = [white |-> IF s = players.white THEN NoSocket ELSE players.white,
                 black |-> IF s = players.black THEN NoSocket ELSE players.black]
  /\ out' = Out("disconnect", s, "none", {}, {}, {})
  /\ UNCHANGED <<impl, game>>
  /\ RoomsUnchanged
  /\ ApiUnchanged
  /\ UNCHANGED gameDocs

\* events a client may emit for which handleConnection registers no listener
UnhandledEvents == {"offerDraw", "acceptDraw"}

\* an event without a listener: socket.io drops it
SingleUnhandled(s, ev) ==
  /\ impl = "single"
  /\ conn[s] = "open"
  /\ game.moveCount <= MaxDrawPlies
  /\ out' = Out(ev, s, "none", {}, {}, {})
  /\ UNCHANGED <<impl, conn, players, game>>
  /\ RoomsUnchanged
  /\ ApiUnchanged
  /\ UNCHANGED gameDocs

(* ---------------- policy engine (policies/*.js) ------------------------ *)

\* A context argument is a JavaScript value: a string, null, or an object
\* with the keys named in has.  An action argument that is an object matches
\* no case label of a policy's switch.
StringValue == [kind |-> "string", has |-> {}]
ObjectAsAction == "[object Object]"

\* null or undefined: reading a property of it throws
Nil == [nil |-> TRUE]

\* the least number of moves before a draw may be offered
MinDrawMoves == 30

\* variant of ValidateContext that does not look for the required fields
ValidateContextKindOnly(context, requiredFields) == context.kind = "object"

\* BasePolicy.validateContext(context, requiredFields)
ValidateContext(context, requiredFields) ==
  /\ context.kind = "object"
  /\ requiredFields \subseteq context.has

\* Array.prototype.includes on the players list
Includes(list, x) == \E i \in 1..Len(list) : list[i] = x

\* x._id.toString() can be evaluated
HasId(x) == ~x.nil /\ x._id # Undefined

\* user._id.toString() === targetUser._id.toString(), evaluated
SameId(user, targetUser) == user._id = targetUser._id

\* UserPolicy.canViewProfile(user, targetUser)
UserCanViewProfile(user, targetUser) ==
  IF ~HasId(user) \/ ~HasId(targetUser) THEN "throw"
  ELSE IF SameId(user, targetUser) THEN "allow"
  ELSE IF targetUser.isPublic THEN "allow"
  ELSE IF user.role = "admin" THEN "allow"
  ELSE IF Includes(user.friends, targetUser._id) THEN "allow"
  ELSE "deny"

\* UserPolicy.canEditProfile(user, targetUser)
UserCanEditProfile(user, targetUser) ==
  IF ~HasId(user) \/ ~HasId(targetUser) THEN "throw"
  ELSE IF SameId(user, targetUser) THEN "allow"
  ELSE IF user.role = "admin" THEN "allow"
  ELSE "deny"

\* UserPolicy.canDeleteAccount(user, targetUser)
UserCanDeleteAccount(user, targetUser) ==
  IF ~HasId(user) \/ ~HasId(targetUser) THEN "throw"
  ELSE IF SameId(user, targetUser) THEN "allow"
  ELSE IF user.role = "admin" THEN "allow"
  ELSE "deny"

\* UserPolicy.canChangePassword(user, targetUser)
UserCanChangePassword(user, targetUser) ==
  IF ~HasId(user) \/ ~HasId(targetUser) THEN "throw"
  ELSE IF SameId(user, targetUser) THEN "allow"
  ELSE IF user.role = "admin" THEN "allow"
  ELSE "deny"

\* UserPolicy.canViewStats(user, targetUser)
UserCanViewStats(user, targetUser) ==
  IF ~HasId(user) \/ ~HasId(targetUser) THEN "throw"
  ELSE IF SameId(user, targetUser) THEN "allow"
  ELSE IF targetUser.isPublic THEN "allow"
  ELSE IF user.role = "admin" THEN "allow"
  ELSE "deny"

\* UserPolicy.canUpdateRating(user, targetUser)
UserCanUpdateRating(user, targetUser) ==
  IF user.nil THEN "throw"
  ELSE IF user.role = "system" THEN "allow"
  ELSE IF user.role = "admin" THEN "allow"
  ELSE "deny"

\* UserPolicy.canViewGames(user, targetUser)
UserCanViewGames(user, targetUser) ==
  IF ~HasId(user) \/ ~HasId(targetUser) THEN "throw"
  ELSE IF SameId(user, targetUser) THEN "allow"
  ELSE IF targetUser.isPublic THEN "allow"
  ELSE IF user.role = "admin" THEN "allow"
  ELSE "deny"

\* UserPolicy.canCreateGame(user)
UserCanCreateGame(user) ==
  IF user.nil THEN "deny"
  ELSE IF user.isBanned THEN "deny"
  ELSE IF ~user.emailVerified THEN "deny"
  ELSE "allow"

\* UserPolicy.canJoinGame(user, game)
UserCanJoinGame(user, g) ==
  IF user.nil THEN "deny"
  ELSE IF user.isBanned THEN "deny"
  ELSE IF g.nil THEN "throw"
  ELSE IF g.status # "waiting" THEN "deny"
  ELSE IF Includes(g.players, user._id) THEN "deny"
  ELSE IF Len(g.players) >= 2 THEN "deny"
  ELSE "allow"

\* UserPolicy.canSpectateGame(user, game)
UserCanSpectateGame(user, g) ==
  IF g.nil THEN "throw"
  ELSE IF ~g.allowSpectators THEN "deny"
  ELSE IF ~user.nil /\ user.isBanned THEN "deny"
  ELSE "allow"

\* UserPolicy.can(context, action); "invalid" is the denial of a context
\* that fails validation
UserPolicyCan(context, action) ==
  IF ~ValidateContext(context, {"user"}) THEN "invalid"
  ELSE CASE action = "view_profile" -> UserCanViewProfile(context.user, context.targetUser)
         [] action = "edit_profile" -> UserCanEditProfile(context.user, context.targetUser)
         [] action = "delete_account" -> UserCanDeleteAccount(context.user, context.targetUser)
         [] action = "change_password" -> UserCanChangePassword(context.user, context.targetUser)
         [] action = "view_stats" -> UserCanViewStats(context.user, context.targetUser)
         [] action = "update_rating" -> UserCanUpdateRating(context.user, context.targetUser)
         [] action = "view_games" -> UserCanViewGames(context.user, context.targetUser)
         [] action = "create_game" -> UserCanCreateGame(context.user)
         [] action = "join_game" -> UserCanJoinGame(context.user, context.resource)
         [] action = "spectate_game" -> UserCanSpectateGame(context.user, context.resource)
         [] OTHER -> "deny"

\* variant of CanMakeMove that does not look at the status of the game
CanMakeMoveAnyStatus(user, g, move) ==
  IF g.nil THEN "throw"
  ELSE IF user.nil THEN "throw"
  ELSE IF ~Includes(g.players, user._id) THEN "deny"
  ELSE IF user._id = Undefined THEN "throw"
  ELSE IF g.currentTurn # user._id THEN "deny"
  ELSE IF g.isPaused THEN "deny"
  ELSE IF move.nil THEN "deny"
  ELSE IF move.from = "" \/ move.to = "" THEN "deny"
  ELSE IF g.timeExpired THEN "deny"
  ELSE "allow"

\* GamePolicy.canMakeMove(user, game, move); user._id.toString() throws
\* when the user object has no _id
CanMakeMove(user, g, move) ==
  IF g.nil THEN "throw"
  ELSE IF g.status # "active" THEN "deny"
  ELSE IF user.nil THEN "throw"
  ELSE IF ~Includes(g.players, user._id) THEN "deny"
  ELSE IF user._id = Undefined THEN "throw"
  ELSE IF g.currentTurn # user._id THEN "deny"
  ELSE IF g.isPaused THEN "deny"
  ELSE IF move.nil THEN "deny"
  ELSE IF move.from = "" \/ move.to = "" THEN "deny"
  ELSE IF g.timeExpired THEN "deny"
  ELSE "allow"

\* variant of CanResignGame that does not ask for a seat
CanResignGameAnyone(user, g) ==
  IF g.nil THEN "throw"
  ELSE IF g.status # "active" THEN "deny"
  ELSE "allow"

\* GamePolicy.canResignGame(user, game)
CanResignGame(user, g) ==
  IF g.nil THEN "throw"
  ELSE IF g.status # "active" THEN "deny"
  ELSE IF user.nil THEN "throw"
  ELSE IF ~Includes(g.players, user._id) THEN "deny"
  ELSE IF g.status = "waiting" THEN "deny"
  ELSE "allow"

\* variant of CanOfferDraw without the minimum number of moves
CanOfferDrawNoMinimum(user, g) ==
  IF g.nil THEN "throw"
  ELSE IF g.status # "active" THEN "deny"
  ELSE IF user.nil THEN "throw"
  ELSE IF ~Includes(g.players, user._id) THEN "deny"
  ELSE IF g.pendingDrawOffer # "none" THEN "deny"
  ELSE "allow"

\* GamePolicy.canOfferDraw(user, game); pendingDrawOffer is the id of the
\* user who offered, "none" without an offer
CanOfferDraw(user, g) ==
  IF g.nil THEN "throw"
  ELSE IF g.status # "active" THEN "deny"
  ELSE IF user.nil THEN "throw"
  ELSE IF ~Includes(g.players, user._id) THEN "deny"
  ELSE IF g.moveCount < MinDrawMoves THEN "deny"
  ELSE IF g.pendingDrawOffer # "none" THEN "deny"
  ELSE "allow"

\* variant of CanAcceptDraw that does not ask who made the offer
CanAcceptDrawOwnOffer(user, g) ==
  IF g.nil THEN "throw"
  ELSE IF g.status # "active" THEN "deny"
  ELSE IF user.nil THEN "throw"
  ELSE IF ~Includes(g.players, user._id) THEN "deny"
  ELSE IF g.pendingDrawOffer = "none" THEN "deny"
  ELSE "allow"

\* GamePolicy.canAcceptDraw(user, game)
CanAcceptDraw(user, g) ==
  IF g.nil THEN "throw"
  ELSE IF g.status # "active" THEN "deny"
  ELSE IF user.nil THEN "throw"
  ELSE IF ~Includes(g.players, user._id) THEN "deny"
  ELSE IF g.pendingDrawOffer = "none" THEN "deny"
  ELSE IF user._id = Undefined THEN "throw"
  ELSE IF g.pendingDrawOffer = user._id THEN "deny"
  ELSE "allow"

\* GamePolicy.canDeclineDraw(user, game)
CanDeclineDraw(user, g) ==
  IF g.nil THEN "throw"
  ELSE IF g.status # "active" THEN "deny"
  ELSE IF user.nil THEN "throw"
  ELSE IF ~Includes(g.players, user._id) THEN "deny"
  ELSE IF g.pendingDrawOffer = "none" THEN "deny"
  ELSE IF user._id = Undefined THEN "throw"
  ELSE IF g.pendingDrawOffer = user._id THEN "deny"
  ELSE "allow"

\* GamePolicy.canRequestAnalysis(user, game)
CanRequestAnalysis(user, g) ==
  IF g.nil THEN "throw"
  ELSE IF g.status # "finished" THEN "deny"
  ELSE IF user.nil THEN "throw"
  ELSE IF ~Includes(g.players, user._id) THEN "deny"
  ELSE IF user.analysisCredits <= 0 THEN "deny"
  ELSE "allow"

\* GamePolicy.canViewGame(user, game)
CanViewGame(user, g) ==
  IF g.nil \/ user.nil THEN "throw"
  ELSE IF Includes(g.players, user._id) THEN "allow"
  ELSE IF g.allowSpectators THEN "allow"
  ELSE IF user.role = "admin" THEN "allow"
  ELSE IF g.isPublic THEN "allow"
  ELSE "deny"

\* variant of CanJoinGame that does not look at the rating bounds
CanJoinGameAnyRating(user, g) ==
  IF g.nil THEN "throw"
  ELSE IF g.status # "waiting" THEN "deny"
  ELSE IF user.nil THEN "throw"
  ELSE IF Includes(g.players, user._id) THEN "deny"
  ELSE IF Len(g.players) >= 2 THEN "deny"
  ELSE "allow"

\* GamePolicy.canJoinGame(user, game); a rating bound of 0 is unset
CanJoinGame(user, g) ==
  IF g.nil THEN "throw"
  ELSE IF g.status # "waiting" THEN "deny"
  ELSE IF user.nil THEN "throw"
  ELSE IF Includes(g.players, user._id) THEN "deny"
  ELSE IF Len(g.players) >= 2 THEN "deny"
  ELSE IF g.minRating # 0 /\ user.rating < g.minRating THEN "deny"
  ELSE IF g.maxRating # 0 /\ user.rating > g.maxRating THEN "deny"
  ELSE "allow"

\* variant of CanSpectateGame that does not ask whether the actor is seated
CanSpectateGameSeated(user, g) ==
  IF g.nil THEN "throw"
  ELSE IF ~g.allowSpectators THEN "deny"
  ELSE IF user.nil THEN "throw"
  ELSE "allow"

\* GamePolicy.canSpectateGame(user, game)
CanSpectateGame(user, g) ==
  IF g.nil THEN "throw"
  ELSE IF ~g.allowSpectators THEN "deny"
  ELSE IF user.nil THEN "throw"
  ELSE IF Includes(g.players, user._id) THEN "deny"
  ELSE "allow"

\* GamePolicy.canCreateTournament(user)
CanCreateTournament(user) ==
  IF user.nil THEN "deny"
  ELSE IF user.rating < 1000 THEN "deny"
  ELSE IF user.isBanned THEN "deny"
  ELSE "allow"

\* GamePolicy.canJoinTournament(user, tournament)
CanJoinTournament(user, t) ==
  IF t.nil THEN "throw"
  ELSE IF t.status # "registration" THEN "deny"
  ELSE IF user.nil THEN "throw"
  ELSE IF t.minRating # 0 /\ user.rating < t.minRating THEN "deny"
  ELSE IF t.maxRating # 0 /\ user.rating > t.maxRating THEN "deny"
  ELSE IF Includes(t.participants, user._id) THEN "deny"
  ELSE "allow"

\* GamePolicy.canAdministerGame(user, game); organizer is the organizer of
\* the game's tournament, Undefined without a tournament
CanAdministerGame(user, g) ==
  IF user.nil THEN "throw"
  ELSE IF user.role = "admin" THEN "allow"
  ELSE IF g.nil THEN "throw"
  ELSE IF g.organizer # Undefined /\ g.organizer = user._id THEN "allow"
  ELSE "deny"

\* variant of GamePolicyCan whose default case allows
GamePolicyCanDefaultAllow(context, action) ==
  IF ~ValidateContext(context, {"user", "game"}) THEN "invalid"
  ELSE CASE action = "make_move" -> CanMakeMove(context.user, context.game, context.move)
         [] action = "resign_game" -> CanResignGame(context.user, context.game)
         [] action = "offer_draw" -> CanOfferDraw(context.user, context.game)
         [] action = "accept_draw" -> CanAcceptDraw(context.user, context.game)
         [] action = "decline_draw" -> CanDeclineDraw(context.user, context.game)
         [] action = "request_analysis" -> CanRequestAnalysis(context.user, context.game)
         [] action = "view_game" -> CanViewGame(context.user, context.game)
         [] action = "join_game" -> CanJoinGame(context.user, context.game)
         [] action = "spectate_game" -> CanSpectateGame(context.user, context.game)
         [] action = "create_tournament" -> CanCreateTournament(context.user)
         [] action = "join_tournament" -> CanJoinTournament(context.user, context.targetGame)
         [] action = "administer_game" -> CanAdministerGame(context.user, context.game)
         [] OTHER -> "allow"

\* GamePolicy.can(context, action); "invalid" is the denial of a context
\* that fails validation
GamePolicyCan(context, action) ==
  IF ~ValidateContext(context, {"user", "game"}) THEN "invalid"
  ELSE CASE action = "make_move" -> CanMakeMove(context.user, context.game, context.move)
         [] action = "resign_game" -> CanResignGame(context.user, context.game)
         [] action = "offer_draw" -> CanOfferDraw(context.user, context.game)
         [] action = "accept_draw" -> CanAcceptDraw(context.user, context.game)
         [] action = "decline_draw" -> CanDeclineDraw(context.user, context.game)
         [] action = "request_analysis" -> CanRequestAnalysis(context.user, context.game)
         [] action = "view_game" -> CanViewGame(context.user, context.game)
         [] action = "join_game" -> CanJoinGame(context.user, context.game)
         [] action = "spectate_game" -> CanSpectateGame(context.user, context.game)
         [] action = "create_tournament" -> CanCreateTournament(context.user)
         [] action = "join_tournament" -> CanJoinTournament(context.user, context.targetGame)
         [] action = "administer_game" -> CanAdministerGame(context.user, context.game)
         [] OTHER -> "deny"

\* the answer of the policy registered under policyType, "none" when no
\* policy is registered under it
PolicyAnswer(policyType, context, action) ==
  CASE policyType = "user" -> UserPolicyCan(context, action)
    [] policyType = "game" -> GamePolicyCan(context, action)
    [] OTHER -> "none"

\* variant of PolicyManagerCan that allows every request
PolicyManagerCanFailOpen(policyType, context, action) == TRUE

\* PolicyManager.can(policyType, context, action): a throwing policy is
\* caught and answered false
PolicyManagerCan(policyType, context, action) ==
  PolicyAnswer(policyType, context, action) = "allow"

\* variant of CheckMultipleFrom that stops at the first denied check
RECURSIVE CheckMultipleStopsAtDeny(_, _)
CheckMultipleStopsAtDeny(checks, results) ==
  IF checks = <<>> THEN results
  ELSE LET c == Head(checks)
           r == PolicyManagerCan(c.policyType, c.context, c.action)
           rs == [k \in DOMAIN results \cup {c.key} |->
                    IF k = c.key THEN r ELSE results[k]]
       IN IF r THEN CheckMultipleStopsAtDeny(Tail(checks), rs) ELSE rs

\* the loop of PolicyManager.checkMultiple(checks): results[key] is
\* assigned check after check
RECURSIVE CheckMultipleFrom(_, _)
CheckMultipleFrom(checks, results) ==
  IF checks = <<>> THEN results
  ELSE LET c == Head(checks)
           r == PolicyManagerCan(c.policyType, c.context, c.action)
       IN CheckMultipleFrom(Tail(checks),
            [k \in DOMAIN results \cup {c.key} |->
               IF k = c.key THEN r ELSE results[k]])

\* PolicyManager.checkMultiple(checks)
CheckMultiple(checks) == CheckMultipleFrom(checks, <<>>)

(* ------- multi-room coordinator (sockets/socketController.js) ---------- *)

\* the calls the handlers make: policyManager.can(type, actionName, {...})
CanCreateCall == PolicyManagerCan("user", StringValue, ObjectAsAction)
CanJoinCall == PolicyManagerCan("game", StringValue, ObjectAsAction)
CanMoveCall == PolicyManagerCan("game", StringValue, ObjectAsAction)
CanResignCall == PolicyManagerCan("game", StringValue, ObjectAsAction)

Seat(u, s, color) == [userId |-> u, socketId |-> s, color |-> color]

\* the room record handleNewGame builds (timeControl and createdAt are
\* carried by the record and read by no handler)
NewRoom(gid, u, s, allow) ==
  [id |-> gid, fen |-> ChessFen(ChessNew), status |-> "waiting",
   players |-> <<Seat(u, s, "white")>>, moveCount |-> 0,
   currentTurn |-> Undefined, winner |-> Undefined, result |-> Undefined,
   drawReason |-> Undefined, isCheck |-> FALSE, lastMove |-> NoMove,
   resignedBy |-> Undefined, disconnectedBy |-> Undefined,
   allowSpectators |-> allow]

PutGame(gs, gid, r) == [g \in DOMAIN gs \cup {gid} |-> IF g = gid THEN r ELSE gs[g]]

\* the colour of the first seat of pl whose index is in the set idx
ColorOfFirst(pl, idx) ==
  IF idx = {} THEN Undefined
  ELSE pl[CHOOSE i \in idx : \A j \in idx : i <= j].color

\* players.find(p => p.userId !== userId)?.color
FirstColorNotUser(pl, u) ==
  ColorOfFirst(pl, {i \in 1..Len(pl) : pl[i].userId # u})

\* players.find(p => p.socketId !== socketId)?.color
FirstColorNotSocket(pl, s) ==
  ColorOfFirst(pl, {i \in 1..Len(pl) : pl[i].socketId # s})

\* an error signal that goes to the room of the request, not to its sender
ErrToRoom(ev, s, msg) == Out(ev, s, msg, {}, {"error"}, {})

Err(ev, s, msg) == Out(ev, s, msg, {"error"}, {}, {})

\* an anonymous connection: no handleConnection(socket, user) for it
RoomsAnonymousConnect(s) ==
  /\ impl = "rooms"
  /\ NextToConnect(s)
  /\ conn' = [conn EXCEPT ![s] = "open"]
  /\ out' = Out("connect", s, "anonymous", {}, {}, {})
  /\ UNCHANGED <<impl, users, games, waitingPlayers, ioRooms>>
  /\ SingleUnchanged
  /\ ApiUnchanged
  /\ UNCHANGED gameDocs

\* SocketController.handleConnection(socket, user)
RoomsConnection(s, u, dbOk) ==
  /\ impl = "rooms"
  /\ NextToConnect(s)
  /\ conn' = [conn EXCEPT ![s] = "open"]
  /\ users' = [t \in DOMAIN users \cup {s} |->
                 IF t = s THEN [userId |-> u, socketId |-> s] ELSE users[t]]
  /\ out' = IF ~dbOk THEN Err("connect", s, "Connection failed")
            ELSE Out("connect", s, "connected",
                     (IF CanCreateCall THEN {"canCreateGame"} ELSE {}) \cup {"userInfo"},
                     {}, {})
  /\ UNCHANGED <<impl, games, waitingPlayers, ioRooms>>
  /\ SingleUnchanged
  /\ ApiUnchanged
  /\ UNCHANGED gameDocs

\* SocketController.handleNewGame(socket, data); gid is generateGameId()
RoomsNewGame(s, gid, allow) ==
  /\ impl = "rooms"
  /\ conn[s] = "open"
  /\ IF s \notin DOMAIN users
       THEN /\ out' = Err("newGame", s, "User not authenticated")
            /\ UNCHANGED <<games, waitingPlayers, ioRooms>>
     ELSE IF ~CanCreateCall
       THEN /\ out' = Err("newGame", s, "Cannot create game")
            /\ UNCHANGED <<games, waitingPlayers, ioRooms>>
     ELSE /\ games' = PutGame(games, gid, NewRoom(gid, users[s].userId, s, allow))
          /\ waitingPlayers' = Append(waitingPlayers,
                 [userId |-> users[s].userId, socketId |-> s, gameId |-> gid])
          /\ ioRooms' = [ioRooms EXCEPT ![gid] = @ \cup {s}]
          /\ out' = Out("newGame", s, "created", {"gameCreated"}, {}, {})
  /\ UNCHANGED <<impl, conn, users>>
  /\ SingleUnchanged
  /\ ApiUnchanged
  /\ UNCHANGED gameDocs

\* SocketController.handleJoinGame(socket, data)
RoomsJoinGame(s, gid) ==
  /\ impl = "rooms"
  /\ conn[s] = "open"
  /\ IF s \notin DOMAIN users
       THEN /\ out' = Err("joinGame", s, "User not authenticated")
            /\ UNCHANGED <<games, waitingPlayers, ioRooms>>
     ELSE IF gid \notin DOMAIN games
       THEN /\ out' = Err("joinGame", s, "Game not found")
            /\ UNCHANGED <<games, waitingPlayers, ioRooms>>
     ELSE IF ~CanJoinCall
       THEN /\ out' = Err("joinGame", s, "Cannot join this game")
            /\ UNCHANGED <<games, waitingPlayers, ioRooms>>
     ELSE /\ Len(games[gid].players) < MaxPlayersLen
          /\ games' = [games EXCEPT ![gid] =
                 [@ EXCEPT !.players = Append(@, Seat(users[s].userId, s, "black")),
                           !.status = "active",
                           !.currentTurn = "white"]]
          /\ waitingPlayers' = SelectSeq(waitingPlayers, LAMBDA p : p.gameId # gid)
          /\ ioRooms' = [ioRooms EXCEPT ![gid] = @ \cup {s}]
          /\ out' = Out("joinGame", s, "joined", {"gameStarted"},
                        {"playerJoined", "gameStarted"}, {})
  /\ UNCHANGED <<impl, conn, users>>
  /\ SingleUnchanged
  /\ ApiUnchanged
  /\ UNCHANGED gameDocs

\* the room after an accepted move of handleMove (lines 301-318)
RoomAfterMove(r, m) ==
  LET c == ChessMove(ChessLoad(r.fen), m)
      turn == IF r.currentTurn = "white" THEN "black" ELSE "white"
      r1 == [r EXCEPT !.fen = ChessFen(c), !.moveCount = @ + 1,
                      !.currentTurn = turn, !.lastMove = m]
  IN IF ChessIsCheckmate(c)
       THEN [r1 EXCEPT !.status = "finished",
                       !.winner = IF turn = "white" THEN "black" ELSE "white",
                       !.result = "checkmate"]
     ELSE IF ChessIsDraw(c)
       THEN [r1 EXCEPT !.status = "finished", !.result = "draw",
                       !.drawReason = IF ChessIsStalemate(c) THEN "stalemate" ELSE "draw"]
     ELSE IF ChessIsCheck(c)
       THEN [r1 EXCEPT !.isCheck = TRUE]
     ELSE r1

\* SocketController.handleMove(socket, data); chess.move either returns
\* null or throws on an illegal move, depending on the chess.js release
RoomsMove(s, gid, m, throws) ==
  /\ impl = "rooms"
  /\ conn[s] = "open"
  /\ IF s \notin DOMAIN users
       THEN /\ out' = Err("move", s, "User not authenticated")
            /\ UNCHANGED games
     ELSE IF gid \notin DOMAIN games
       THEN /\ out' = Err("move", s, "Game not found")
            /\ UNCHANGED games
     ELSE IF ~CanMoveCall
       THEN /\ out' = OutM("move", s, ChessMoveOk(ChessLoad(games[gid].fen), m),
                            games[gid].lastMove = m,
                            "Cannot make this move", {"error"}, {}, {})
            /\ UNCHANGED games
     ELSE IF ~ChessMoveOk(ChessLoad(games[gid].fen), m)
       THEN /\ out' = OutM("move", s, FALSE, games[gid].lastMove = m,
                            IF throws THEN "Failed to make move" ELSE "Invalid move",
                            {"error"}, {}, {})
            /\ UNCHANGED games
     ELSE /\ games[gid].moveCount < MaxPlies
          /\ games' = [games EXCEPT ![gid] = RoomAfterMove(@, m)]
          /\ out' = OutM("move", s, TRUE, games[gid].lastMove = m, "applied",
                        {"moveConfirmed"}, {"moveMade"}, {})
  /\ UNCHANGED <<impl, conn, users, waitingPlayers, ioRooms>>
  /\ SingleUnchanged
  /\ ApiUnchanged
  /\ UNCHANGED gameDocs

\* SocketController.handleResign(socket, data)
RoomsResign(s, gid) ==
  /\ impl = "rooms"
  /\ conn[s] = "open"
  /\ IF s \notin DOMAIN users
       THEN /\ out' = Err("resign", s, "User not authenticated")
            /\ UNCHANGED games
     ELSE IF gid \notin DOMAIN games
       THEN /\ out' = Err("resign", s, "Game not found")
            /\ UNCHANGED games
     ELSE IF ~CanResignCall
       THEN /\ out' = Err("resign", s, "Cannot resign at this time")
            /\ UNCHANGED games
     ELSE /\ games' = [games EXCEPT ![gid] =
                 [@ EXCEPT !.status = "finished",
                           !.resignedBy = users[s].userId,
                           !.winner = FirstColorNotUser(games[gid].players, users[s].userId),
                           !.result = "resignation"]]
          /\ out' = Out("resign", s, "resigned", {"resignationConfirmed"},
                        {"gameResigned"}, {})
  /\ UNCHANGED <<impl, conn, users, waitingPlayers, ioRooms>>
  /\ SingleUnchanged
  /\ ApiUnchanged
  /\ UNCHANGED gameDocs

\* SocketController.handlePlayerDisconnection(gameId, socketId);
\* getSocketById returns null, so no notice is emitted
PlayerDisconnection(r, s) ==
  IF r.status # "active" \/ ~\E i \in 1..Len(r.players) : r.players[i].socketId = s
    THEN r
    ELSE [r EXCEPT !.status = "finished",
                   !.disconnectedBy =
                      r.players[CHOOSE i \in 1..Len(r.players) :
                          /\ r.players[i].socketId = s
                          /\ \A j \in 1..(i - 1) : r.players[j].socketId # s].userId,
                   !.winner = FirstColorNotSocket(r.players, s),
                   !.result = "disconnection"]

\* SocketController.handleDisconnection(socket); the socket leaves its
\* socket.io rooms when it disconnects
RoomsDisconnection(s, dbOk) ==
  /\ impl = "rooms"
  /\ conn[s] = "open"
  /\ conn' = [conn EXCEPT ![s] = "gone"]
  /\ ioRooms' = [g \in GameIds |-> ioRooms[g] \ {s}]
  /\ IF s \notin DOMAIN users \/ ~dbOk
       THEN UNCHANGED <<users, games, waitingPlayers>>
       ELSE /\ waitingPlayers' = SelectSeq(waitingPlayers, LAMBDA p : p.socketId # s)
            /\ games' = [g \in DOMAIN games |-> PlayerDisconnection(games[g], s)]
            /\ users' = [t \in DOMAIN users \ {s} |-> users[t]]
  /\ out' = Out("disconnect", s, "none", {}, {}, {})
  /\ UNCHANGED impl
  /\ SingleUnchanged
  /\ ApiUnchanged
  /\ UNCHANGED gameDocs

(* -------------------------- specification ------------------------------ *)

\* Game documents (models/Game.js), the durable game records: gameDocs is
\* the collection, keyed by document id. addMove pushes onto moves and
\* saves; endGame closes the document and saves (the time stamps they set
\* are left out). No handler creates a document or calls either method.
AddMove(doc, move) == [doc EXCEPT !.moves = Append(@, move)]

EndGame(doc, result, winner, drawReason) ==
  [doc EXCEPT !.status = "finished", !.result = result, !.winner = winner,
              !.drawReason = drawReason]

NoOut == Out("init", NoSocket, "none", {}, {}, {})

\* no call has been made through the library interfaces
NoCall == [op |-> "none"]

\* the state of the server process after start-up
Constructed ==
  /\ conn = [s \in Sockets |-> "new"]
  /\ out = NoOut
  /\ players = [white |-> NoSocket, black |-> NoSocket]
  /\ game = StartNewGame
  /\ users = <<>>
  /\ games = <<>>
  /\ waitingPlayers = <<>>
  /\ ioRooms = [g \in GameIds |-> {}]
  /\ gameDocs = <<>>

Init ==
  /\ impl \in {"single", "rooms"}
  /\ Constructed
  /\ pc = NoCall

Next ==
  \/ \E s \in Sockets : SingleConnection(s)
  \/ \E s \in Sockets, m \in Moves : SingleMove(s, m)
  \/ \E s \in Sockets : SingleDisconnect(s)
  \/ \E s \in Sockets, ev \in UnhandledEvents : SingleUnhandled(s, ev)
  \/ \E s \in Sockets : RoomsAnonymousConnect(s)
  \/ \E s \in Sockets, u \in UserIds, dbOk \in BOOLEAN : RoomsConnection(s, u, dbOk)
  \/ \E s \in Sockets, gid \in GameIds, allow \in BOOLEAN : RoomsNewGame(s, gid, allow)
  \/ \E s \in Sockets, gid \in GameIds : RoomsJoinGame(s, gid)
  \/ \E s \in Sockets, gid \in GameIds, m \in Moves, throws \in BOOLEAN : RoomsMove(s, gid, m, throws)
  \/ \E s \in Sockets, gid \in GameIds : RoomsResign(s, gid)
  \/ \E s \in Sockets, dbOk \in BOOLEAN : RoomsDisconnection(s, dbOk)

Spec == Init /\ [][Next]_vars

(* ------------ the policy engine driven directly (PolicySpec) ----------- *)

\* a user document as the predicates read it
User(id, banned, verified, rating, role) ==
  [nil |-> FALSE, _id |-> id, isBanned |-> banned, emailVerified |-> verified,
   rating |-> rating, role |-> role, friends |-> <<>>, analysisCredits |-> 1]

\* the users of the checks; the last one is the userInfo record the socket
\* coordinator keeps, which has no _id
PolicyUsers ==
  {User(id, FALSE, TRUE, 1200, "user") : id \in UserIds \cup {"u3"}}
    \cup {User("u1", TRUE, TRUE, 1200, "user"),
          User("u3", FALSE, TRUE, 1200, "admin"),
          [User("u2", FALSE, TRUE, 1200, "user") EXCEPT !.analysisCredits = 0],
          [User("u3", FALSE, TRUE, 1200, "user") EXCEPT !.friends = <<"u2">>],
          User(Undefined, FALSE, FALSE, 900, "user")}

\* a game document as the predicates read it; players holds user ids
PolicyGame(status, pl, moveCount, offer, spectators) ==
  [nil |-> FALSE, status |-> status, players |-> pl, currentTurn |-> "u1",
   moveCount |-> moveCount, pendingDrawOffer |-> offer,
   allowSpectators |-> spectators, isPaused |-> FALSE, isPublic |-> FALSE,
   minRating |-> 0, maxRating |-> 0, timeExpired |-> FALSE,
   organizer |-> Undefined]

PolicyGames ==
  LET g == PolicyGame("active", <<"u1", "u2">>, MinDrawMoves, "none", FALSE)
      w == PolicyGame("waiting", <<"u1">>, 0, "none", FALSE)
  IN {PolicyGame(st, pl, mc, of, sp) :
        st \in {"waiting", "active", "finished"},
        pl \in {<<>>, <<"u1">>, <<"u1", "u2">>},
        mc \in {MinDrawMoves - 1, MinDrawMoves},
        of \in {"none", "u2"},
        sp \in BOOLEAN}
       \cup {[g EXCEPT !.currentTurn = "u2"], [g EXCEPT !.isPaused = TRUE],
             [g EXCEPT !.timeExpired = TRUE], [g EXCEPT !.isPublic = TRUE],
             [g EXCEPT !.organizer = "u3"], [g EXCEPT !.pendingDrawOffer = "u1"],
             [w EXCEPT !.minRating = 1500], [w EXCEPT !.maxRating = 1000]}

\* the entry handleNewGame and handleJoinGame put into the players list of
\* a room for user u: an object {userId, username, rating, socketId,
\* color}. Array.includes compares by identity, so the entry is equal to
\* no id and not to undefined; it is a value apart from all of them
RoomSeat(u) == IF u = "u1" THEN "{userId: u1}" ELSE "{userId: u2}"

\* move payloads of a make_move check
PolicyMoves ==
  {[nil |-> FALSE, from |-> f, to |-> t] : f \in {"", "e2"}, t \in {"", "e4"}}

\* tournament documents (context.targetGame of join_tournament)
PolicyTournaments ==
  {[nil |-> FALSE, status |-> st, minRating |-> mr, maxRating |-> 0,
    participants |-> ps] :
      st \in {"registration", "running"}, mr \in {0, 1500},
      ps \in {<<>>, <<"u1">>}}

\* the users a profile check is about
TargetUsers ==
  {[nil |-> FALSE, _id |-> id, isPublic |-> pub] :
      id \in {"u1", "u2", Undefined}, pub \in BOOLEAN}

\* a context object with the keys named in has; a key that is absent, or
\* holds null, has the value Nil
Context(has, user, g, move, targetGame, targetUser, resource) ==
  [kind |-> "object", has |-> has, user |-> user, game |-> g, move |-> move,
   targetGame |-> targetGame, targetUser |-> targetUser, resource |-> resource]

NullValue == [kind |-> "null", has |-> {}]

\* the case labels of GamePolicy.can and UserPolicy.can
GameActions ==
  {"make_move", "resign_game", "offer_draw", "accept_draw", "decline_draw",
   "request_analysis", "view_game", "join_game", "spectate_game",
   "create_tournament", "join_tournament", "administer_game"}
UserActions ==
  {"view_profile", "edit_profile", "delete_account", "change_password",
   "view_stats", "update_rating", "view_games", "create_game", "join_game",
   "spectate_game"}

\* action names no policy defines
UnknownActions == {"castle", ObjectAsAction}

\* action names of the checks
Actions == GameActions \cup UserActions \cup UnknownActions

\* the policy types PolicyManager registers, and names it does not
RegisteredTypes == {"user", "game"}
PolicyTypes == RegisteredTypes \cup {"tournament", Undefined}

Triple(policyType, context, action) ==
  [policyType |-> policyType, context |-> context, action |-> action]

\* contexts of game checks: each of the keys user and game may be absent,
\* and a key that is present may hold null
GameContexts ==
  {Context(hs, IF "user" \in hs THEN u ELSE Nil, IF "game" \in hs THEN g ELSE Nil,
           Nil, Nil, Nil, Nil) :
     hs \in SUBSET {"user", "game"}, u \in PolicyUsers \cup {Nil},
     g \in PolicyGames \cup {Nil}}

MoveContexts ==
  {[c EXCEPT !.has = @ \cup {"move"}, !.move = m] :
     c \in {d \in GameContexts : d.has = {"user", "game"}}, m \in PolicyMoves}

TournamentContexts ==
  {Context({"user", "game", "targetGame"}, u, Nil, Nil, t, Nil, Nil) :
     u \in PolicyUsers \cup {Nil}, t \in PolicyTournaments}

\* contexts of user checks
UserContexts ==
  {Context(hs, IF "user" \in hs THEN u ELSE Nil, Nil, Nil, Nil, tu, Nil) :
     hs \in SUBSET {"user"}, u \in PolicyUsers \cup {Nil},
     tu \in TargetUsers \cup {Nil}}
   \cup
  {Context({"user", "resource"}, u, Nil, Nil, Nil, Nil, r) :
     u \in PolicyUsers \cup {Nil},
     r \in {g \in PolicyGames : g.moveCount = MinDrawMoves /\ g.pendingDrawOffer = "none"}}

\* the checks of a batch: allowed, denied, throwing and unregistered ones,
\* under one of two keys
BatchChecks ==
  LET u1 == User("u1", FALSE, TRUE, 1200, "user")
      g == PolicyGame("active", <<"u1", "u2">>, MinDrawMoves, "none", FALSE)
      base == {Triple("game", Context({"user", "game"}, u1, g, Nil, Nil, Nil, Nil), "resign_game"),
               Triple("game", Context({"game"}, Nil, g, Nil, Nil, Nil, Nil), "resign_game"),
               Triple("game", Context({"user", "game"}, u1, Nil, Nil, Nil, Nil, Nil), "resign_game"),
               Triple("user", Context({}, Nil, Nil, Nil, Nil, Nil, Nil), "create_game"),
               Triple("tournament", NullValue, "create_game")}
  IN {[policyType |-> b.policyType, context |-> b.context, action |-> b.action,
       key |-> k] : b \in base, k \in {"a", "b"}}

\* batches of at most MaxChecks checks
Batches == UNION {[1..n -> BatchChecks] : n \in 0..MaxChecks}

\* { user: req.user, ...(check.context || {}) }
MergeUser(reqUser, context) ==
  IF context.kind # "object"
    THEN Context({"user"}, reqUser, Nil, Nil, Nil, Nil, Nil)
    ELSE [context EXCEPT !.has = @ \cup {"user"},
                         !.user = IF "user" \in context.has THEN context.user ELSE reqUser]

\* PolicyMiddleware.requireMultiplePermissions(checks)(req, res, next): the
\* results of the batch and the answer to the request
RequireMultiplePermissions(reqUser, checks) ==
  IF reqUser.nil THEN [results |-> <<>>, answer |-> "unauthorized"]
  ELSE LET results == CheckMultiple([i \in DOMAIN checks |->
                        [checks[i] EXCEPT !.context = MergeUser(reqUser, @)]])
       IN [results |-> results,
           answer |-> IF \E k \in DOMAIN results : ~results[k]
                        THEN "forbidden" ELSE "next"]

\* variant of RequirePermission that lets a denied request through
RequirePermissionPassesDenied(reqUser, policyType, action, built) ==
  IF reqUser.nil THEN [status |-> "401", next |-> FALSE]
  ELSE IF built.kind = "throws" THEN [status |-> "500", next |-> FALSE]
  ELSE [status |-> "none", next |-> TRUE]

\* variant of requirePermission that goes on to the handler, with the
\* user alone as context, when the context builder throws
RequirePermissionIgnoresBuildFailure(reqUser, policyType, action, built) ==
  IF reqUser.nil THEN [status |-> "401", next |-> FALSE]
  ELSE IF built.kind = "throws" THEN [status |-> "none", next |-> TRUE]
  ELSE IF ~PolicyManagerCan(policyType, MergeUser(reqUser, built), action)
    THEN [status |-> "403", next |-> FALSE]
  ELSE [status |-> "none", next |-> TRUE]

\* requirePermission(policyType, action, contextBuilder)(req, res, next):
\* the status of the response sent, "none" if none, and whether next() is
\* called; built is what the context builder returns, of kind "none" when
\* there is no builder and of kind "throws" when it throws
RequirePermission(reqUser, policyType, action, built) ==
  IF reqUser.nil THEN [status |-> "401", next |-> FALSE]
  ELSE IF built.kind = "throws" THEN [status |-> "500", next |-> FALSE]
  ELSE IF ~PolicyManagerCan(policyType, MergeUser(reqUser, built), action)
    THEN [status |-> "403", next |-> FALSE]
  ELSE [status |-> "none", next |-> TRUE]

\* a call of policyManager.can that has not been answered yet
CanCall(policyType, context, action) ==
  [op |-> "call", api |-> "can", policyType |-> policyType,
   context |-> context, action |-> action]

\* variant of the can call in which a denying policy strips the move from
\* the context it was given
CallCanStripsMove ==
  /\ impl = "policy"
  /\ pc.op = "call" /\ pc.api = "can"
  /\ pc' = [op |-> "done", api |-> "can", policyType |-> pc.policyType,
            context |-> IF PolicyManagerCan(pc.policyType, pc.context, pc.action)
                             \/ pc.context.kind # "object"
                          THEN pc.context
                          ELSE [pc.context EXCEPT !.has = @ \ {"move"}],
            action |-> pc.action,
            answer |-> PolicyAnswer(pc.policyType, pc.context, pc.action),
            result |-> PolicyManagerCan(pc.policyType, pc.context, pc.action)]
  /\ UNCHANGED <<impl, conn, out, players, game, users, games, waitingPlayers, ioRooms, gameDocs>>

\* await policyManager.can(policyType, context, action); answer is the
\* outcome inside the policy, result what can returns
CallCan ==
  /\ impl = "policy"
  /\ pc.op = "call" /\ pc.api = "can"
  /\ pc' = [op |-> "done", api |-> "can", policyType |-> pc.policyType,
            context |-> pc.context, action |-> pc.action,
            answer |-> PolicyAnswer(pc.policyType, pc.context, pc.action),
            result |-> PolicyManagerCan(pc.policyType, pc.context, pc.action)]
  /\ UNCHANGED <<impl, conn, out, players, game, users, games, waitingPlayers, ioRooms, gameDocs>>

\* await policyManager.checkMultiple(checks)
CallCheckMultiple ==
  /\ impl = "policy"
  /\ pc.op = "call" /\ pc.api = "checkMultiple"
  /\ pc' = [op |-> "done", api |-> "checkMultiple", checks |-> pc.checks,
            results |-> CheckMultiple(pc.checks)]
  /\ UNCHANGED <<impl, conn, out, players, game, users, games, waitingPlayers, ioRooms, gameDocs>>

\* a request passing through requireMultiplePermissions(checks)
CallRequireMultiplePermissions ==
  /\ impl = "policy"
  /\ pc.op = "call" /\ pc.api = "requireMultiplePermissions"
  /\ LET r == RequireMultiplePermissions(pc.reqUser, pc.checks)
     IN pc' = [op |-> "done", api |-> "requireMultiplePermissions",
               reqUser |-> pc.reqUser, checks |-> pc.checks,
               results |-> r.results, answer |-> r.answer]
  /\ UNCHANGED <<impl, conn, out, players, game, users, games, waitingPlayers, ioRooms, gameDocs>>

\* one call is made per behaviour: of can with a registered or unregistered
\* policy type, of checkMultiple, or a request through the middleware
PolicyInit ==
  /\ impl = "policy"
  /\ Constructed
  /\ \/ \E c \in GameContexts, a \in GameActions \cup UnknownActions \cup {"view_profile"} :
          pc = CanCall("game", c, a)
     \/ \E c \in MoveContexts : pc = CanCall("game", c, "make_move")
     \/ \E c \in TournamentContexts : pc = CanCall("game", c, "join_tournament")
     \/ \E c \in UserContexts, a \in UserActions \cup UnknownActions \cup {"make_move"} :
          pc = CanCall("user", c, a)
     \/ \E pt \in PolicyTypes, c \in {StringValue, NullValue}, a \in Actions :
          pc = CanCall(pt, c, a)
     \/ \E pt \in PolicyTypes \ RegisteredTypes,
           c \in {d \in GameContexts : d.game = Nil}, a \in Actions :
          pc = CanCall(pt, c, a)
     \/ \E u \in UserIds, pl \in {<<RoomSeat("u1")>>, <<RoomSeat("u1"), RoomSeat("u2")>>} :
          pc = CanCall("game",
                       Context({"user", "game"},
                               User(Undefined, FALSE, TRUE, 1200, "user") @@ [userId |-> u],
                               PolicyGame("waiting", pl, 0, "none", TRUE),
                               Nil, Nil, Nil, Nil),
                       "join_game")
     \/ \E cs \in Batches : pc = [op |-> "call", api |-> "checkMultiple", checks |-> cs]
     \/ \E u \in {Nil, User("u1", FALSE, TRUE, 1200, "user"),
                   User("u3", FALSE, TRUE, 1200, "admin")},
           pt \in PolicyTypes,
           a \in {"make_move", "resign_game", "view_game", "join_game",
                  "edit_profile", "create_game", "castle"},
           b \in {[kind |-> "none"], [kind |-> "throws"]}
                  \cup {d \in GameContexts \cup MoveContexts \cup UserContexts :
                          "user" \notin d.has} :
          pc = [op |-> "call", api |-> "requirePermission", reqUser |-> u,
                policyType |-> pt, action |-> a, built |-> b]
     \/ \E u \in {Nil, User("u1", FALSE, TRUE, 1200, "user"),
                   User("u3", FALSE, TRUE, 1200, "user")},
           cs \in Batches :
          pc = [op |-> "call", api |-> "requireMultiplePermissions",
                reqUser |-> u, checks |-> cs]
     \/ \E at \in {"none", "invalid", "expired", "valid"},
           ht \in {"none", "invalid", "expired", "valid"},
           lk \in {"throws", "missing", "offline", "online"} :
          pc = [op |-> "call", api |-> "authenticateSocket",
                authToken |-> at, headerToken |-> ht, lookup |-> lk]

\* the authentication middleware with a failed verification passed to
\* next as an error
AuthenticateSocketRejects(authToken, headerToken, lookup) ==
  LET token == IF authToken # "none" THEN authToken ELSE headerToken
  IN IF token = "none" THEN [isAuthenticated |-> FALSE, user |-> FALSE, next |-> "next()"]
     ELSE IF token # "valid"
       THEN [isAuthenticated |-> FALSE, user |-> FALSE, next |-> "next(error)"]
     ELSE IF lookup = "throws"
       THEN [isAuthenticated |-> FALSE, user |-> FALSE, next |-> "next()"]
     ELSE IF lookup \in {"missing", "offline"}
       THEN [isAuthenticated |-> FALSE, user |-> FALSE, next |-> "next()"]
     ELSE [isAuthenticated |-> TRUE, user |-> TRUE, next |-> "next()"]

\* the io.use middleware of socketHandler: the token is
\* handshake.auth.token || the second word of the authorization header;
\* jwt.verify throws on an invalid or expired token; lookup is the outcome
\* of User.findById(decoded.userId). The result is socket.isAuthenticated,
\* whether socket.user was set, and the call of next
AuthenticateSocket(authToken, headerToken, lookup) ==
  LET token == IF authToken # "none" THEN authToken ELSE headerToken
  IN IF token = "none" THEN [isAuthenticated |-> FALSE, user |-> FALSE, next |-> "next()"]
     ELSE IF token # "valid"
       THEN [isAuthenticated |-> FALSE, user |-> FALSE, next |-> "next()"]
     ELSE IF lookup = "throws"
       THEN [isAuthenticated |-> FALSE, user |-> FALSE, next |-> "next()"]
     ELSE IF lookup \in {"missing", "offline"}
       THEN [isAuthenticated |-> FALSE, user |-> FALSE, next |-> "next()"]
     ELSE [isAuthenticated |-> TRUE, user |-> TRUE, next |-> "next()"]

\* a handshake passing through the authentication middleware
CallAuthenticateSocket ==
  /\ impl = "policy"
  /\ pc.op = "call" /\ pc.api = "authenticateSocket"
  /\ LET r == AuthenticateSocket(pc.authToken, pc.headerToken, pc.lookup)
     IN pc' = [op |-> "done", api |-> "authenticateSocket",
               authToken |-> pc.authToken, headerToken |-> pc.headerToken,
               lookup |-> pc.lookup, isAuthenticated |-> r.isAuthenticated,
               user |-> r.user, next |-> r.next]
  /\ UNCHANGED <<impl, conn, out, players, game, users, games, waitingPlayers, ioRooms, gameDocs>>

\* a request passing through requirePermission(policyType, action, builder)
CallRequirePermission ==
  /\ impl = "policy"
  /\ pc.op = "call" /\ pc.api = "requirePermission"
  /\ LET r == RequirePermission(pc.reqUser, pc.policyType, pc.action, pc.built)
     IN pc' = [op |-> "done", api |-> "requirePermission", reqUser |-> pc.reqUser,
               policyType |-> pc.policyType, action |-> pc.action,
               built |-> pc.built, status |-> r.status, next |-> r.next]
  /\ UNCHANGED <<impl, conn, out, players, game, users, games, waitingPlayers, ioRooms, gameDocs>>

PolicyNext ==
  \/ CallCan
  \/ CallCheckMultiple
  \/ CallRequireMultiplePermissions
  \/ CallRequirePermission
  \/ CallAuthenticateSocket

PolicySpec == PolicyInit /\ [][PolicyNext]_vars

(* ----------------------------- properties ------------------------------ *)

\* C1: every room has at most two seats, every seat is white or black, and
\* no colour is seated twice; the two seats of the single room are held by
\* two different connections.
C1_SeatsBounded ==
  /\ \A g \in DOMAIN games :
       /\ Len(games[g].players) <= 2
       /\ \A i \in 1..Len(games[g].players) :
            games[g].players[i].color \in {"white", "black"}
       /\ \A i, j \in 1..Len(games[g].players) :
            i # j => games[g].players[i].color # games[g].players[j].color
  /\ DOMAIN players = {"white", "black"}
  /\ players.white # NoSocket => players.white # players.black

\* both seats of the single room are taken and a further connection is open
C1_Witness ==
  /\ players.white # NoSocket
  /\ players.black # NoSocket
  /\ \E s \in Sockets : conn[s] = "open" /\ SeatColor(players, s) = "none"

\* the colour a connection is seated with in a room, Undefined if none
RoomSeatColor(r, s) ==
  ColorOfFirst(r.players, {i \in 1..Len(r.players) : r.players[i].socketId = s})

\* C2: a move changes a game only when the requesting connection holds the
\* seat of the colour that was to move before the request; a move request of
\* any other connection leaves the game as it was, whether or not the oracle
\* would accept its payload.
C2_OnlyTurnHolderMoves ==
  [][/\ game' # game =>
          /\ out'.ev = "move"
          /\ SeatColor(players, out'.sock) = ChessTurn(game.chess)
     /\ (impl = "single" /\ out'.ev = "move"
           /\ SeatColor(players, out'.sock) # ChessTurn(game.chess)) =>
          /\ game' = game
          /\ out'.toAll = {}
     /\ \A g \in DOMAIN games \cap DOMAIN games' :
          games'[g].fen # games[g].fen =>
            /\ out'.ev = "move"
            /\ RoomSeatColor(games[g], out'.sock) = games[g].currentTurn
    ]_vars

\* the black seat asked for a move the oracle accepts while white was to
\* move, after both sides have moved, and the request was dropped
C2_Witness ==
  /\ out.ev = "move"
  /\ out.result = "dropped"
  /\ out.legal
  /\ out.sock = players.black
  /\ ChessTurn(game.chess) = "w"
  /\ game.moveCount >= 2

\* C3: an accepted move flips the side to move exactly once and counts as
\* one move; a request that is denied or rejected leaves the side to move
\* as it was.
C3_TurnFlipsOncePerMove ==
  [][/\ out'.result = "applied" /\ impl = "single" =>
          /\ ChessTurn(game'.chess) = Opp(ChessTurn(game.chess))
          /\ game'.moveCount = game.moveCount + 1
     /\ out'.result # "applied" =>
          /\ ChessTurn(game'.chess) = ChessTurn(game.chess)
          /\ game'.moveCount = game.moveCount
     /\ \A g \in DOMAIN games \cap DOMAIN games' :
          out'.ev = "move" =>
          IF out'.result = "applied" /\ games'[g].moveCount # games[g].moveCount
            THEN /\ games'[g].currentTurn # games[g].currentTurn
                 /\ games'[g].currentTurn \in {"white", "black"}
                 /\ games'[g].moveCount = games[g].moveCount + 1
            ELSE /\ games'[g].currentTurn = games[g].currentTurn
                 /\ games'[g].moveCount = games[g].moveCount
    ]_vars

\* black's first move has just been applied: it is white's turn again
C3_Witness ==
  /\ out.ev = "move"
  /\ out.result = "applied"
  /\ game.moveCount = 2
  /\ ChessTurn(game.chess) = "w"

\* C4: a status only moves forward along waiting -> active -> finished or
\* aborted: a game that is finished or aborted is never waiting or active
\* again, and an active game is never waiting again; this holds for the
\* game of the game service and for every room.
C4_StatusOnlyForward ==
  [][/\ game.gameStatus \in {"finished", "aborted"} => game'.gameStatus \notin {"waiting", "active"}
     /\ game.gameStatus = "active" => game'.gameStatus # "waiting"
     /\ \A g \in DOMAIN games \cap DOMAIN games' :
          /\ games[g].status \in {"finished", "aborted"} => games'[g].status \notin {"waiting", "active"}
          /\ games[g].status = "active" => games'[g].status # "waiting"
    ]_vars

\* C5: when two connections join an empty room one after the other, the
\* first is seated as white, the second as black, and on the second join the
\* room is active with white to move.  For the multi-room coordinator the
\* first join is the new-game request of a registered connection and the
\* second the join request for the room it opened.
C5_TwoJoinsStartGame ==
  [][/\ (impl = "single" /\ out'.ev = "connect"
           /\ players.white = NoSocket /\ players.black = NoSocket) =>
          /\ players'.white = out'.sock
          /\ players'.black = NoSocket
     /\ (impl = "single" /\ out'.ev = "connect"
           /\ players.white # NoSocket /\ players.black = NoSocket) =>
          /\ players'.white = players.white
          /\ players'.black = out'.sock
          /\ game'.gameStatus = "active"
          /\ ChessTurn(game'.chess) = "w"
     /\ (impl = "rooms" /\ out'.ev = "newGame" /\ out'.sock \in DOMAIN users) =>
          \E g \in DOMAIN games' :
            /\ Len(games'[g].players) = 1
            /\ games'[g].players[1].socketId = out'.sock
            /\ games'[g].players[1].color = "white"
     /\ (impl = "rooms" /\ out'.ev = "joinGame" /\ out'.sock \in DOMAIN users) =>
          \A g \in DOMAIN games :
            (games[g].status = "waiting" /\ games'[g] # games[g]) =>
              /\ Len(games'[g].players) = 2
              /\ games'[g].players[2].socketId = out'.sock
              /\ games'[g].players[2].color = "black"
              /\ games'[g].status = "active"
              /\ games'[g].currentTurn = "white"
    ]_vars

\* the payload of the move applied last to the game of the game service
LastMove(g) == g.gameHistory[Len(g.gameHistory)].move

\* C6: in an active game a move the oracle accepts, requested by the
\* connection seated with the colour to move, is applied: the position
\* becomes the one after the move, the move counter grows by exactly one,
\* the other colour is to move, and the move and the new board state are
\* broadcast; in a room the mover gets a confirmation and the room the move.
C6_LegalMoveApplied ==
  [][/\ (impl = "single" /\ out'.ev = "move" /\ out'.legal
           /\ game.gameStatus = "active"
           /\ SeatColor(players, out'.sock) = ChessTurn(game.chess)) =>
          /\ out'.result = "applied"
          /\ game'.moveCount = game.moveCount + 1
          /\ Len(game'.gameHistory) = Len(game.gameHistory) + 1
          /\ Legal(game.chess.pos, LastMove(game'))
          /\ game'.chess.pos = ApplyPos(game.chess.pos, LastMove(game'))
          /\ game'.chess.pos # game.chess.pos
          /\ ChessTurn(game'.chess) = Opp(ChessTurn(game.chess))
          /\ {"move", "boardState"} \subseteq out'.toAll
     /\ \A s \in Sockets, gid \in DOMAIN games, m \in Moves, throws \in BOOLEAN :
          (/\ RoomsMove(s, gid, m, throws)
           /\ games[gid].status = "active"
           /\ RoomSeatColor(games[gid], s) = games[gid].currentTurn
           /\ ChessMoveOk(ChessLoad(games[gid].fen), m)) =>
            /\ out'.result = "applied"
            /\ games'[gid].moveCount = games[gid].moveCount + 1
            /\ games'[gid].fen = ApplyPos(games[gid].fen, m)
            /\ games'[gid].currentTurn # games[gid].currentTurn
            /\ "moveMade" \in out'.toRoom
    ]_vars

\* white's first move e2-e4 has been applied and broadcast: one move
\* counted, the pawn on e4, black to move
C6_Witness ==
  /\ out.ev = "move"
  /\ out.result = "applied"
  /\ out.sock = players.white
  /\ game.moveCount = 1
  /\ LastMove(game) = Mv("e2", "e4")
  /\ game.chess.pos.e4
  /\ ChessTurn(game.chess) = "b"
  /\ {"move", "boardState"} \subseteq out.toAll

\* C7: when a request is denied by the authorization check, the state is
\* left unchanged, nothing is broadcast, and the requester, and nobody else,
\* receives a denial signal.
C7_DenialSignalled ==
  [][/\ (impl = "single" /\ out'.ev = "move"
           /\ SeatColor(players, out'.sock) # ChessTurn(game.chess)) =>
          /\ game' = game
          /\ players' = players
          /\ out'.toAll = {}
          /\ out'.toRoom = {}
          /\ out'.toSender # {}
     /\ (impl = "rooms"
           /\ out'.result \in {"Cannot create game", "Cannot join this game",
                               "Cannot make this move", "Cannot resign at this time"}) =>
          /\ games' = games
          /\ waitingPlayers' = waitingPlayers
          /\ out'.toAll = {}
          /\ out'.toRoom = {}
          /\ out'.toSender = {"error"}
    ]_vars

\* C8: when the oracle rejects a move that passed the authorization check,
\* position, turn, move counter and status are unchanged, nothing is sent
\* to anybody else, and the requester receives the rejection.
C8_RejectedMoveNoEffect ==
  [][/\ (impl = "single" /\ out'.ev = "move" /\ ~out'.legal
           /\ SeatColor(players, out'.sock) = ChessTurn(game.chess)) =>
          /\ game' = game
          /\ players' = players
          /\ out'.toAll = {}
          /\ out'.toRoom = {}
          /\ out'.toSender = {"invalid"}
     /\ (impl = "rooms" /\ out'.result \in {"Invalid move", "Failed to make move"}) =>
          /\ games' = games
          /\ out'.toAll = {}
          /\ out'.toRoom = {}
          /\ out'.toSender = {"error"}
    ]_vars

\* the colour to move asked for a move the oracle rejects, after a move
C8_Witness ==
  /\ out.ev = "move"
  /\ out.result = "invalid"
  /\ ~out.legal
  /\ SeatColor(players, out.sock) = ChessTurn(game.chess)
  /\ game.moveCount >= 1
  /\ out.toSender = {"invalid"}

C10_DisconnectFinishesGame ==
  [][/\ (impl = "single" /\ out'.ev = "disconnect"
           /\ game.gameStatus = "active"
           /\ players.white # NoSocket /\ players.black # NoSocket
           /\ SeatColor(players, out'.sock) # "none") =>
          /\ game'.gameStatus = "finished"
          /\ game'.winner = Opp(SeatColor(players, out'.sock))
          /\ game'.drawReason = "disconnection"
     /\ \A g \in DOMAIN games \cap DOMAIN games' :
          (impl = "rooms" /\ out'.ev = "disconnect"
             /\ games[g].status = "active"
             /\ RoomSeatColor(games[g], out'.sock) # Undefined) =>
            /\ games'[g].status = "finished"
            /\ games'[g].result = "disconnection"
            /\ games'[g].winner # RoomSeatColor(games[g], out'.sock)
            /\ games'[g].winner \in {"white", "black"}
    ]_vars

\* C11: after a seated player disconnects from an active game, every
\* participant that is still connected receives a disconnection notice
\* (playerDisconnected or gameOver).
C11_DisconnectNoticeSent ==
  [][/\ (impl = "single" /\ out'.ev = "disconnect"
           /\ game.gameStatus = "active"
           /\ SeatColor(players, out'.sock) # "none"
           /\ \E t \in Sockets : conn'[t] = "open") =>
          out'.toAll \cap {"playerDisconnected", "gameOver"} # {}
     /\ \A g \in DOMAIN games :
          (impl = "rooms" /\ out'.ev = "disconnect"
             /\ games[g].status = "active"
             /\ RoomSeatColor(games[g], out'.sock) # Undefined
             /\ ioRooms'[g] # {}) =>
            out'.toRoom \cap {"playerDisconnected", "gameOver"} # {}
    ]_vars

(* ---------- the game service driven directly (ServiceSpec) ------------- *)

\* variant of Resign that names the resigning colour the winner
ResignWinnerIsResigner(g, color) ==
  IF g.gameStatus = "active"
    THEN [g EXCEPT !.gameStatus = "finished", !.winner = color,
                   !.drawReason = "resignation"]
    ELSE g

\* ChessGame.resign(color): the game after the call
Resign(g, color) ==
  IF g.gameStatus = "active"
    THEN [g EXCEPT !.gameStatus = "finished",
                   !.winner = IF color = "w" THEN "b" ELSE "w",
                   !.drawReason = "resignation"]
    ELSE g

\* /^[a-h][1-8]$/.test(s)
IsSquare(s) ==
  \E f \in {"a", "b", "c", "d", "e", "f", "g", "h"},
     r \in {"1", "2", "3", "4", "5", "6", "7", "8"} : s = f \o r

\* ChessController.validateMove(move): "valid" or the error of the answer
ValidateMove(g, m) ==
  IF m.from = "" \/ m.to = "" THEN "Invalid move format"
  ELSE IF ~IsSquare(m.from) \/ ~IsSquare(m.to) THEN "Invalid square notation"
  ELSE IF g.gameStatus # "active" THEN "Game is not active"
  ELSE "valid"

\* makeMove: (move) => game.makeMove(move)
ServiceMakeMove(m) ==
  /\ impl = "service"
  /\ MakeMoveResult(game, m) => game.moveCount < MaxPlies
  /\ game' = MakeMove(game, m)
  /\ pc' = [op |-> "makeMove", move |-> m, result |-> MakeMoveResult(game, m)]
  /\ UNCHANGED <<impl, conn, out, players, users, games, waitingPlayers, ioRooms, gameDocs>>

\* resign: (color) => game.resign(color)
ServiceResign(color) ==
  /\ impl = "service"
  /\ game' = Resign(game, color)
  /\ pc' = [op |-> "resign", color |-> color, result |-> game.gameStatus = "active"]
  /\ UNCHANGED <<impl, conn, out, players, users, games, waitingPlayers, ioRooms, gameDocs>>

\* ChessGame.offerDraw(color) on the instance getGameInstance() returns
ServiceOfferDraw(color) ==
  /\ impl = "service"
  /\ pc' = [op |-> "offerDraw", color |-> color, result |-> FALSE]
  /\ UNCHANGED <<impl, conn, out, players, game, users, games, waitingPlayers, ioRooms, gameDocs>>

\* startNewGame: () => game.startNewGame()
ServiceStartNewGame ==
  /\ impl = "service"
  /\ game' = StartNewGame
  /\ pc' = [op |-> "startNewGame"]
  /\ UNCHANGED <<impl, conn, out, players, users, games, waitingPlayers, ioRooms, gameDocs>>

\* ChessController.validateMove(move)
ControllerValidateMove(m) ==
  /\ impl = "service"
  /\ pc' = [op |-> "validateMove", move |-> m, result |-> ValidateMove(game, m)]
  /\ UNCHANGED <<impl, conn, out, players, game, users, games, waitingPlayers, ioRooms, gameDocs>>

ServiceInit ==
  /\ impl = "service"
  /\ Constructed
  /\ pc = NoCall

ServiceNext ==
  \/ \E m \in Moves : ServiceMakeMove(m)
  \/ \E color \in {"w", "b"} : ServiceResign(color)
  \/ \E color \in {"w", "b"} : ServiceOfferDraw(color)
  \/ ServiceStartNewGame
  \/ \E m \in Moves \cup {Mv("e2", "e9"), NoMove} : ControllerValidateMove(m)

ServiceSpec == ServiceInit /\ [][ServiceNext]_vars

\* a completed policyManager.can call of the given policy type and action
\* on a context object
CanDone(policyType, action) ==
  /\ pc.op = "done" /\ pc.api = "can"
  /\ pc.policyType = policyType /\ pc.action = action
  /\ pc.context.kind = "object"

\* C12: a resign request is allowed only when the requester holds a seat of
\* the game and the game is not waiting; the request of a user without a
\* seat (a spectator) is denied, and the check changes nothing.
C12_ResignOnlySeated ==
  CanDone("game", "resign_game") =>
    /\ pc.result =>
         /\ ~pc.context.user.nil /\ ~pc.context.game.nil
         /\ Includes(pc.context.game.players, pc.context.user._id)
         /\ pc.context.game.status # "waiting"
    /\ (/\ ~pc.context.user.nil /\ ~pc.context.game.nil
        /\ ~Includes(pc.context.game.players, pc.context.user._id)) => ~pc.result
    /\ Constructed

\* a spectator of an active game asked to resign and was denied
C12_Witness ==
  /\ CanDone("game", "resign_game")
  /\ ~pc.context.user.nil /\ ~pc.context.game.nil
  /\ pc.context.game.status = "active"
  /\ pc.context.game.players = <<"u1", "u2">>
  /\ pc.context.user._id = "u3"
  /\ ~pc.result

C14_DrawByAgreement ==
  [][(/\ impl = "single"
      /\ out.ev = "offerDraw" /\ out.sock = players.white
      /\ out'.ev = "acceptDraw" /\ out'.sock = players.black
      /\ players.white # NoSocket /\ players.black # NoSocket
      /\ game.gameStatus = "active") =>
       /\ game'.gameStatus = "finished"
       /\ game'.winner = NoWinner
       /\ game'.drawReason = "agreement"
    ]_vars

\* C15: a policy check for an action name that the selected policy does not
\* define, or for a policy type that is not registered, is denied.
C15_UnknownDenied ==
  (pc.op = "done" /\ pc.api = "can") =>
    /\ pc.policyType \notin RegisteredTypes => ~pc.result
    /\ (pc.policyType = "game" /\ pc.action \notin GameActions) => ~pc.result
    /\ (pc.policyType = "user" /\ pc.action \notin UserActions) => ~pc.result

\* an action name GamePolicy does not define was checked on a context that
\* passes validation, and denied by the default case
C15_Witness ==
  /\ CanDone("game", "castle")
  /\ {"user", "game"} \subseteq pc.context.has
  /\ ~pc.context.user.nil /\ ~pc.context.game.nil
  /\ pc.answer = "deny" /\ ~pc.result

\* the context fields the predicate of an action reads
FieldsRead(policyType, action) ==
  CASE policyType = "game" /\ action = "make_move" -> {"user", "game", "move"}
    [] policyType = "game" /\ action = "create_tournament" -> {"user"}
    [] policyType = "game" /\ action = "join_tournament" -> {"user", "targetGame"}
    [] policyType = "game" /\ action \in GameActions -> {"user", "game"}
    [] policyType = "user" /\ action \in {"create_game", "update_rating"} -> {"user"}
    [] policyType = "user" /\ action \in {"join_game", "spectate_game"} -> {"user", "resource"}
    [] policyType = "user" /\ action \in UserActions -> {"user", "targetUser"}
    [] OTHER -> {}

\* C16: policyManager.can answers every (policyType, context, action) with
\* a boolean and never throws; when a context field that the predicate of
\* the action reads is missing or null, the answer is false.
C16_MissingFieldDenied ==
  (pc.op = "done" /\ pc.api = "can") =>
    /\ pc.result \in BOOLEAN
    /\ (/\ pc.context.kind = "object"
        /\ \E f \in FieldsRead(pc.policyType, pc.action) : pc.context[f] = Nil)
         => ~pc.result

\* C17: a game check whose context lacks the user key or the game key, and
\* a user check whose context lacks the user key, or whose context is not
\* an object, is denied by the validation of the context, before any
\* predicate of an action is evaluated.
C17_ValidationFirst ==
  (pc.op = "done" /\ pc.api = "can") =>
    /\ (/\ pc.policyType = "game"
        /\ pc.context.kind # "object" \/ ~({"user", "game"} \subseteq pc.context.has))
         => pc.answer = "invalid" /\ ~pc.result
    /\ (/\ pc.policyType = "user"
        /\ pc.context.kind # "object" \/ "user" \notin pc.context.has)
         => pc.answer = "invalid" /\ ~pc.result

\* a resign check by a seated user on a context without the game key was
\* denied by the validation
C17_Witness ==
  /\ CanDone("game", "resign_game")
  /\ pc.context.has = {"user"}
  /\ ~pc.context.user.nil /\ pc.context.user._id = "u1"
  /\ pc.answer = "invalid" /\ ~pc.result

\* the result of the check at index i of a batch, taken alone
OwnResult(checks, i) ==
  PolicyManagerCan(checks[i].policyType, checks[i].context, checks[i].action)

\* C18: checkMultiple evaluates every check of the batch in order and
\* returns a map with an entry for the key of every check; the entry of a
\* key is the own result of the (last) check filed under it, whatever the
\* results of the other checks are.  The middleware evaluates the batch in
\* the same way on the contexts completed with the user of the request.
C18_CheckMultipleIndependent ==
  /\ (pc.op = "done" /\ pc.api = "checkMultiple") =>
       /\ DOMAIN pc.results = {pc.checks[i].key : i \in DOMAIN pc.checks}
       /\ \A i \in DOMAIN pc.checks :
            (\A j \in DOMAIN pc.checks : j > i => pc.checks[j].key # pc.checks[i].key)
              => pc.results[pc.checks[i].key] = OwnResult(pc.checks, i)
  /\ (pc.op = "done" /\ pc.api = "requireMultiplePermissions" /\ ~pc.reqUser.nil) =>
       LET merged == [i \in DOMAIN pc.checks |->
                        [pc.checks[i] EXCEPT !.context = MergeUser(pc.reqUser, @)]]
       IN /\ DOMAIN pc.results = {merged[i].key : i \in DOMAIN merged}
          /\ \A i \in DOMAIN merged :
               (\A j \in DOMAIN merged : j > i => merged[j].key # merged[i].key)
                 => pc.results[merged[i].key] = OwnResult(merged, i)
          /\ pc.answer = "next" <=> \A i \in DOMAIN merged : pc.results[merged[i].key]

\* a batch whose first check throws inside its predicate and is denied, and
\* whose second check is allowed under another key
C18_Witness ==
  /\ pc.op = "done" /\ pc.api = "checkMultiple"
  /\ Len(pc.checks) = 2
  /\ pc.checks[1].key = "a" /\ pc.checks[2].key = "b"
  /\ PolicyAnswer(pc.checks[1].policyType, pc.checks[1].context, pc.checks[1].action) = "throw"
  /\ pc.results = [k \in {"a", "b"} |-> k = "b"]

\* C19: make_move is denied whenever the status of the game is not active
\* or the proposed move lacks a non-empty origin or destination square.
C19_MakeMoveNeedsActiveAndSquares ==
  CanDone("game", "make_move") =>
    /\ (~pc.context.game.nil /\ pc.context.game.status # "active") => ~pc.result
    /\ (\/ pc.context.move.nil
        \/ pc.context.move.from = ""
        \/ pc.context.move.to = "") => ~pc.result

\* the player to move in a game that is over proposed a well-formed move
\* and was denied
C19_Witness ==
  /\ CanDone("game", "make_move")
  /\ ~pc.context.game.nil /\ ~pc.context.user.nil /\ ~pc.context.move.nil
  /\ pc.context.game.status = "finished"
  /\ pc.context.game.players = <<"u1", "u2">>
  /\ pc.context.game.currentTurn = pc.context.user._id
  /\ pc.context.move.from # "" /\ pc.context.move.to # ""
  /\ pc.answer = "deny" /\ ~pc.result

\* C20: offer_draw is denied whenever the move count of the game is below
\* the minimum (30) or a draw offer is already pending in the game.
C20_OfferDrawNeedsMovesAndNoOffer ==
  (CanDone("game", "offer_draw") /\ ~pc.context.game.nil) =>
    /\ pc.context.game.moveCount < MinDrawMoves => ~pc.result
    /\ pc.context.game.pendingDrawOffer # "none" => ~pc.result

\* a seated player of an active game without a pending offer offered a
\* draw one move short of the minimum and was denied
C20_Witness ==
  /\ CanDone("game", "offer_draw")
  /\ ~pc.context.game.nil /\ ~pc.context.user.nil
  /\ pc.context.game.status = "active"
  /\ Includes(pc.context.game.players, pc.context.user._id)
  /\ pc.context.game.moveCount = MinDrawMoves - 1
  /\ pc.context.game.pendingDrawOffer = "none"
  /\ pc.answer = "deny" /\ ~pc.result

\* C21: accept_draw and decline_draw are allowed only when a draw offer is
\* pending in the game and the offer was made by the other player, not by
\* the actor.
C21_DrawAnswerNeedsForeignOffer ==
  (CanDone("game", "accept_draw") \/ CanDone("game", "decline_draw")) =>
    (pc.result =>
       /\ ~pc.context.user.nil /\ ~pc.context.game.nil
       /\ pc.context.game.pendingDrawOffer # "none"
       /\ pc.context.game.pendingDrawOffer # pc.context.user._id)

\* the player who made the pending offer asked to accept it and was denied
C21_Witness ==
  /\ CanDone("game", "accept_draw")
  /\ ~pc.context.user.nil /\ ~pc.context.game.nil
  /\ pc.context.game.status = "active"
  /\ Includes(pc.context.game.players, pc.context.user._id)
  /\ pc.context.game.pendingDrawOffer = pc.context.user._id
  /\ pc.answer = "deny" /\ ~pc.result

\* C22: join_game is allowed only when the status of the game is waiting,
\* fewer than two seats are filled, and the rating of the actor lies within
\* the optional minimum and maximum rating of the game.
C22_JoinNeedsWaitingSeatRating ==
  CanDone("game", "join_game") =>
    (pc.result =>
       /\ ~pc.context.user.nil /\ ~pc.context.game.nil
       /\ pc.context.game.status = "waiting"
       /\ Len(pc.context.game.players) < 2
       /\ pc.context.game.minRating # 0 => pc.context.user.rating >= pc.context.game.minRating
       /\ pc.context.game.maxRating # 0 => pc.context.user.rating <= pc.context.game.maxRating)

\* a user rated below the minimum of a waiting game with an open seat asked
\* to join and was denied
C22_Witness ==
  /\ CanDone("game", "join_game")
  /\ ~pc.context.user.nil /\ ~pc.context.game.nil
  /\ pc.context.game.status = "waiting"
  /\ Len(pc.context.game.players) < 2
  /\ ~Includes(pc.context.game.players, pc.context.user._id)
  /\ pc.context.game.minRating > pc.context.user.rating
  /\ pc.answer = "deny" /\ ~pc.result

\* C23 as stated: spectate_game, under either policy, is allowed only when
\* the game allows spectators and the actor does not hold a seat in it.
C23_SpectateNeedsUnseated ==
  /\ CanDone("game", "spectate_game") =>
       (pc.result =>
          /\ pc.context.game.allowSpectators
          /\ ~Includes(pc.context.game.players, pc.context.user._id))
  /\ CanDone("user", "spectate_game") =>
       (pc.result =>
          /\ pc.context.resource.allowSpectators
          /\ pc.context.user.nil
               \/ ~Includes(pc.context.resource.players, pc.context.user._id))

\* C23 amended: under the game policy spectate_game is allowed only when
\* the game allows spectators and the actor does not hold a seat in it;
\* under the user policy it is allowed only when the game allows spectators
\* and the actor is not banned.
C23_SpectateByPolicy ==
  /\ CanDone("game", "spectate_game") =>
       (pc.result =>
          /\ ~pc.context.user.nil /\ ~pc.context.game.nil
          /\ pc.context.game.allowSpectators
          /\ ~Includes(pc.context.game.players, pc.context.user._id))
  /\ CanDone("user", "spectate_game") =>
       (pc.result =>
          /\ ~pc.context.resource.nil
          /\ pc.context.resource.allowSpectators
          /\ pc.context.user.nil \/ ~pc.context.user.isBanned)

\* a seated player of a game that allows spectators asked the game policy
\* to spectate it and was denied
C23_Witness ==
  /\ CanDone("game", "spectate_game")
  /\ ~pc.context.user.nil /\ ~pc.context.game.nil
  /\ pc.context.game.allowSpectators
  /\ Includes(pc.context.game.players, pc.context.user._id)
  /\ pc.answer = "deny" /\ ~pc.result

\* C24: seat assignment on connect is deterministic: a connection arriving
\* while the white seat is free gets white, one arriving while only the
\* black seat is free gets black, and one arriving while both are taken
\* becomes a spectator; so the seat a disconnect vacated goes to the next
\* arrival.  An occupied seat never passes to another connection: it only
\* becomes free, by the disconnect of its holder.
C24_SeatAssignment ==
  [][impl = "single" =>
       /\ out'.ev = "connect" =>
            /\ players.white = NoSocket =>
                 /\ players' = [white |-> out'.sock, black |-> players.black]
                 /\ out'.result = "w" /\ "playerRole" \in out'.toSender
            /\ (players.white # NoSocket /\ players.black = NoSocket) =>
                 /\ players' = [white |-> players.white, black |-> out'.sock]
                 /\ out'.result = "b" /\ "playerRole" \in out'.toSender
            /\ (players.white # NoSocket /\ players.black # NoSocket) =>
                 /\ players' = players
                 /\ out'.result = "none" /\ "spectatorRole" \in out'.toSender
       /\ \A c \in {"white", "black"} :
            (players[c] # NoSocket /\ players'[c] # players[c]) =>
              /\ players'[c] = NoSocket
              /\ out'.ev = "disconnect" /\ out'.sock = players[c]
    ]_vars

\* the connection that arrived after the white player had left holds the
\* white seat, next to the black player who arrived before it
C24_Witness ==
  /\ impl = "single"
  /\ out.ev = "connect" /\ out.sock = players.white
  /\ players.black # NoSocket /\ players.black < players.white
  /\ \E s \in Sockets : conn[s] = "gone"

C26_DeniedRequestForbidden ==
  (/\ pc.op = "done" /\ pc.api = "requirePermission"
   /\ ~pc.reqUser.nil /\ pc.built.kind # "throws"
   /\ ~PolicyManagerCan(pc.policyType, MergeUser(pc.reqUser, pc.built), pc.action)) =>
    /\ pc.status = "403" /\ ~pc.next
    /\ Constructed

\* POST /move without a game id: the builder adds no game, the game policy
\* denies the authenticated user and the request is answered 403
C26_Witness ==
  /\ pc.op = "done" /\ pc.api = "requirePermission"
  /\ ~pc.reqUser.nil
  /\ pc.policyType = "game" /\ pc.action = "make_move"
  /\ pc.built.kind = "object" /\ pc.built.has = {}
  /\ pc.status = "403" /\ ~pc.next

\* C27: every error signal of a room handler (connection failure,
\* unauthenticated session, room not found, policy denial, invalid move,
\* handler failure) is emitted to the requesting connection alone, never to
\* a room or to all connections, and the request changes no room; a request
\* from an unregistered session, or one that names an unknown room, changes
\* no room, no waiting entry and no room membership.
C27_ErrorsToSenderOnly ==
  [][impl = "rooms" =>
       /\ out'.result \in {"Connection failed", "User not authenticated",
                           "Game not found", "Cannot create game",
                           "Cannot join this game", "Cannot make this move",
                           "Cannot resign at this time", "Invalid move",
                           "Failed to make move"}
            <=> "error" \in out'.toSender \cup out'.toRoom \cup out'.toAll
       /\ "error" \in out'.toSender \cup out'.toRoom \cup out'.toAll =>
            /\ out'.toSender = {"error"}
            /\ out'.toRoom = {}
            /\ out'.toAll = {}
            /\ games' = games
            /\ waitingPlayers' = waitingPlayers
            /\ ioRooms' = ioRooms
       /\ (/\ out'.ev \in {"newGame", "joinGame", "move", "resign", "disconnect"}
           /\ out'.sock \notin DOMAIN users) =>
            /\ games' = games
            /\ waitingPlayers' = waitingPlayers
            /\ ioRooms' = ioRooms
            /\ out'.ev # "disconnect" => out'.result = "User not authenticated"
       /\ out'.result = "Game not found" => games' = games
    ]_vars

\* a registered session asked to move in a room that does not exist while
\* another registered connection was open: the error went to the sender
C27_Witness ==
  /\ impl = "rooms"
  /\ out.ev = "move" /\ out.result = "Game not found"
  /\ out.toSender = {"error"} /\ out.toRoom = {} /\ out.toAll = {}
  /\ out.sock \in DOMAIN users
  /\ \E t \in DOMAIN users : t # out.sock /\ conn[t] = "open"

\* C28: the authentication middleware of the socket server admits every
\* connection: it calls next without an error whether there is no token,
\* an invalid or expired token, a failing user lookup, or an unknown or
\* offline user. The connection is marked authenticated, with its user
\* attached, exactly when the token verifies and the user exists and is
\* online; otherwise it is anonymous.
C28_SocketAuthNeverRejects ==
  (pc.op = "done" /\ pc.api = "authenticateSocket") =>
     LET token == IF pc.authToken # "none" THEN pc.authToken ELSE pc.headerToken
     IN /\ pc.next = "next()"
        /\ pc.isAuthenticated <=> (token = "valid" /\ pc.lookup = "online")
        /\ pc.user <=> pc.isAuthenticated

\* a handshake with an expired token in the authorization header was
\* admitted as anonymous
C28_Witness ==
  /\ pc.op = "done" /\ pc.api = "authenticateSocket"
  /\ pc.authToken = "none" /\ pc.headerToken = "expired"
  /\ pc.next = "next()" /\ ~pc.isAuthenticated

\* the Chess instances a replay passes through: a new instance, then the
\* instance after each move of the log, fed in order
RECURSIVE ReplayLog(_)
ReplayLog(log) ==
  IF log = <<>> THEN <<ChessNew>>
  ELSE LET before == ReplayLog(SubSeq(log, 1, Len(log) - 1))
       IN Append(before, ChessMove(before[Len(before)], log[Len(log)].move))

\* C29: after any sequence of accepted moves, replaying the recorded move
\* log in order through the rules oracle from the initial position yields
\* exactly the current authoritative position: the oracle accepts every
\* logged move, the position (and the repetition count behind it) of the
\* replay is the one of the game, and the position logged with the N-th
\* move is the one the replay has after N moves. The rooms keep no log and
\* have accepted no move: each stands at the initial position.
C29_ReplayYieldsPosition ==
  /\ impl = "single" =>
       LET replay == ReplayLog(game.gameHistory)
       IN /\ Len(game.gameHistory) = game.moveCount
          /\ replay[Len(replay)] = game.chess
          /\ ChessFen(replay[Len(replay)]) = ChessFen(game.chess)
          /\ \A i \in 1..Len(game.gameHistory) :
               /\ game.gameHistory[i].moveNumber = i
               /\ ChessMoveOk(replay[i], game.gameHistory[i].move)
               /\ game.gameHistory[i].fen = ChessFen(replay[i + 1])
  /\ impl = "rooms" =>
       \A g \in DOMAIN games :
          games[g].moveCount = 0 /\ games[g].fen = ChessFen(ChessNew)

\* four moves were accepted, the last one a knight returning home, and the
\* log of four entries replays to the position on the board
C29_Witness ==
  /\ impl = "single"
  /\ Len(game.gameHistory) = 4
  /\ game.gameHistory[4].move = Mv("f6", "g8")
  /\ game.chess.pos # InitPos
  /\ ChessFen(ReplayLog(game.gameHistory)[5]) = ChessFen(game.chess)

\* C30: a durable game record is created when a room becomes active, it
\* receives one appended entry per applied move, in the order in which the
\* moves were applied, and it is closed when the room becomes finished.
\* Stated on the steps that apply a move, start a room or end one: after
\* the step a Game document holds the applied move appended to the moves
\* it held before (the document of a move that ends the game is closed),
\* a room that became active has a document, and a resigned room's
\* document is closed.
C30_DurableRecordKept ==
  [][/\ (impl = "single" /\ out'.ev = "move" /\ out'.result = "applied") =>
          \E id \in DOMAIN gameDocs \cap DOMAIN gameDocs' :
             LET applied == game'.gameHistory[Len(game'.gameHistory)].move
                 logged == AddMove(gameDocs[id], applied)
             IN /\ gameDocs'[id].moves = logged.moves
                /\ Len(gameDocs'[id].moves) = game'.moveCount
                /\ game'.gameStatus = "finished" =>
                     gameDocs'[id] = EndGame(logged, gameDocs'[id].result,
                                             game'.winner, game'.drawReason)
     /\ (impl = "rooms" /\ out'.ev = "joinGame" /\ out'.result = "joined") =>
          DOMAIN gameDocs' # DOMAIN gameDocs
     /\ (impl = "rooms" /\ out'.ev = "move" /\ out'.result = "applied") =>
          \E id \in DOMAIN gameDocs \cap DOMAIN gameDocs', g \in DOMAIN games :
             /\ games'[g] # games[g]
             /\ gameDocs'[id].moves = AddMove(gameDocs[id], games'[g].lastMove).moves
     /\ (impl = "rooms" /\ out'.ev = "resign" /\ out'.result = "resigned") =>
          \E id \in DOMAIN gameDocs \cap DOMAIN gameDocs' :
             gameDocs'[id].status = "finished"
    ]_vars

C32_CheckIndication ==
  [][/\ (impl = "single" /\ out'.ev = "move" /\ out'.result = "applied") =>
          ("check" \in out'.toAll \cup out'.toRoom)
             <=> (ChessIsCheck(game'.chess) /\ ~ChessIsCheckmate(game'.chess))
     /\ (impl = "rooms" /\ out'.ev = "move" /\ out'.result = "applied") =>
          \A g \in DOMAIN games :
             games'[g] # games[g] =>
               (games'[g].isCheck
                  <=> (ChessIsCheck(ChessLoad(games'[g].fen))
                         /\ ~ChessIsCheckmate(ChessLoad(games'[g].fen))))
    ]_vars

C35_BuildFailureDenied ==
  (/\ pc.op = "done" /\ pc.api = "requirePermission"
   /\ ~pc.reqUser.nil /\ pc.built.kind = "throws") =>
     /\ ~pc.next
     /\ pc.status = "403"

\* C35 (amended): when the context builder throws, the request fails
\* closed but not as a denial: the handler is not run and the requester
\* receives status 500, while a request the policy denies receives 403; a
\* request without a user receives 401 before the builder is called.
C35_BuildFailureFailsClosed ==
  (pc.op = "done" /\ pc.api = "requirePermission" /\ pc.built.kind = "throws") =>
     /\ ~pc.next
     /\ pc.status = IF pc.reqUser.nil THEN "401" ELSE "500"
     /\ pc.status # "403"

\* the builder of an authenticated request threw: status 500, no next
C35_Witness ==
  /\ pc.op = "done" /\ pc.api = "requirePermission"
  /\ ~pc.reqUser.nil /\ pc.built.kind = "throws"
  /\ pc.status = "500" /\ ~pc.next

\* C36: every move request is answered at the requester exactly once:
\* either the applied move is confirmed to it (the move broadcast of the
\* single-room server, moveConfirmed of a room) or it receives a rejection
\* (invalid, error), never both and never nothing.
C36_MoveAnsweredOnce ==
  [][out'.ev = "move" =>
       LET confirmed == \/ "move" \in out'.toAll
                        \/ "moveConfirmed" \in out'.toSender
           rejected == {"invalid", "error"} \cap out'.toSender # {}
       IN /\ confirmed \/ rejected
          /\ ~(confirmed /\ rejected)
          /\ confirmed <=> out'.result = "applied"
    ]_vars

C38_OtherRoomsUntouched ==
  [][/\ (impl = "rooms" /\ out'.ev \in {"joinGame", "move", "resign"}) =>
          /\ DOMAIN games' = DOMAIN games
          /\ \A g, h \in DOMAIN games :
               (games'[g] # games[g] /\ games'[h] # games[h]) => g = h
     /\ impl = "single" => games' = games
    ]_vars

C40_DisconnectCleansUp ==
  [][(impl = "rooms" /\ out'.ev = "disconnect") =>
       /\ out'.sock \notin DOMAIN users'
       /\ \A i \in 1..Len(waitingPlayers') :
            waitingPlayers'[i].socketId # out'.sock
       /\ \A g \in DOMAIN games' :
            (games'[g].status = "waiting" /\ Len(games'[g].players) > 0) =>
              games'[g].players[1].socketId # out'.sock
    ]_vars

====
